---- MODULE Spec2Model ----
(***************************************************************************)
(* The fantasy scoring engine of api/app/scoring.py:                       *)
(* compute_points_from_dict(stats, rules), one call, one loop iteration    *)
(* per step.                                                               *)
(*                                                                         *)
(* Numbers.  Python floats are modelled as decimal fixed-point integers.   *)
(* Stat values and rule fields are counted in thousandths (Milli), points  *)
(* in millionths (Micro = Milli * Milli), so that a product                *)
(* units * multiplier is exact before it is rounded.  A float keeps only   *)
(* a bounded number of significant digits: every arithmetic result goes    *)
(* through FRound, which rounds half-even to Digits significant decimal    *)
(* digits (binary64 does the same with 53 significant bits).               *)
(*                                                                         *)
(* Dictionaries.  A dict is a function whose DOMAIN is its set of keys;    *)
(* the value None is the constant None.                                    *)
(*                                                                         *)
(* Around the call: the values earlier calls returned (history), a second  *)
(* call running concurrently (other), validate_scoring_rule on one rule    *)
(* (vrule, verdict), and the scoring-profile endpoints of                  *)
(* api/app/routers/fantasy.py on the tables scoring_profiles and           *)
(* scoring_rules (profiles, ruleRows, nextId, exported, last); the value   *)
(* a caller holds from get_default_scoring_profiles (defaults); and the    *)
(* rows of player_week_stats (statRows), written by ingest_weekly_stats of *)
(* api/app/services/nflverse.py and read by calculate_points and           *)
(* get_leaderboard of api/app/routers/fantasy.py.                          *)
(***************************************************************************)
EXTENDS Integers, Sequences, FiniteSets, TLC

\* the arguments and the locals of one call of compute_points_from_dict
VARIABLES stats, rules, pc, idx, total, val, units, base, bonus, subtotal, result

\* the outcomes of the calls that have ended, oldest first
VARIABLE history

\* the frame of a second call, running concurrently with the first
VARIABLE other

\* the argument of validate_scoring_rule and what it returned
VARIABLES vrule, verdict

\* the rows of scoring_profiles and of scoring_rules, the number of profile
\* ids handed out, the data of the last export, the last request answered
VARIABLES profiles, ruleRows, nextId, exported, last

callVars ==
    <<stats, rules, pc, idx, total, val, units, base, bonus, subtotal, result>>

\* what the caller of get_default_scoring_profiles holds of its return value
VARIABLE defaults

\* the rows of player_week_stats, in the order they were inserted
VARIABLE statRows

validatorVars == <<vrule, verdict>>

catalogVars == <<defaults>>

statVars == <<statRows>>

storeVars == <<profiles, ruleRows, nextId, exported, last>>

\* what a step of the first call leaves alone, besides history
outsideCall == <<other, validatorVars, storeVars, catalogVars, statVars>>

vars ==
    <<callVars, history, other, validatorVars, storeVars, catalogVars, statVars>>

(***************************************************************************)
(* Bounds of the model.                                                    *)
(***************************************************************************)
\* longest RuleSet drawn by Init
MaxRules == 3
\* significant decimal digits a float keeps
Digits == 5

(***************************************************************************)
(* Numbers                                                                 *)
(***************************************************************************)
Milli == 10^3
Micro == Milli * Milli
\* 0.01 point, the grid of round(total, 2)
Cent == Micro \div 100

\* Python's None; no number of the model is this small
None == 0 - 2000000000

Abs(x) == IF x < 0 THEN 0 - x ELSE x

Min(a, b) == IF b < a THEN b ELSE a

\* round x to a multiple of p, ties to the even multiple
RoundHalfEven(x, p) ==
    LET q == x \div p
        r == x % p
    IN  IF 2 * r < p THEN q * p
        ELSE IF 2 * r > p THEN (q + 1) * p
        ELSE IF q % 2 = 0 THEN q * p ELSE (q + 1) * p

RECURSIVE UlpFrom(_, _)
UlpFrom(m, p) == IF m \div p < 10^Digits THEN p ELSE UlpFrom(m, p * 10)

\* the spacing of the floats around a number of magnitude m
Ulp(m) == UlpFrom(m, 1)

\* the float nearest to the exact value x
FRound(x) == RoundHalfEven(x, Ulp(Abs(x)))

\* float + float
FAdd(a, b) == FRound(a + b)

\* float * float, thousandths times thousandths giving millionths
FMul(a, b) == FRound(a * b)

\* mutant of FloorDiv: int(a / b), truncation toward zero
TruncDiv(a, b) ==
    (IF a < 0 THEN 0 - ((0 - a) \div b) ELSE a \div b) * Milli

\* math.floor(a / b) for b > 0, kept in thousandths; \div rounds toward
\* minus infinity. The quotient is floored exactly: the inputs drawn by
\* Init keep a / b within the precision of a float.
FloorDiv(a, b) == (a \div b) * Milli

\* round(x, 2)
Round2(x) == RoundHalfEven(x, Cent)

(***************************************************************************)
(* Dictionaries                                                            *)
(***************************************************************************)
\* d.get(k, default)
Get(d, k, default) == IF k \in DOMAIN d THEN d[k] ELSE default

\* bool(x) of a number or None
Truthy(x) == x # None /\ x # 0

(***************************************************************************)
(* One iteration of the loop of compute_points_from_dict                   *)
(***************************************************************************)
\* mutant of StatValue: stats.get(key, 1), a missing key read as 1.0
StatValueMissingIsOne(st, rule) ==
    LET v == Get(st, rule["stat_key"], Milli)
    IN  IF Truthy(v) THEN v ELSE 0

\* mutant of StatValue: a missing key falls back to the largest value the
\* stats hold under any key
StatValueAnyKey(st, rule) ==
    LET held == { st[j] : j \in DOMAIN st } \ {None}
        v == IF rule["stat_key"] \in DOMAIN st THEN st[rule["stat_key"]]
             ELSE IF held = {} THEN 0
             ELSE CHOOSE m \in held : \A x \in held : x <= m
    IN  IF Truthy(v) THEN v ELSE 0

\* val = float(stats.get(rule["stat_key"], 0) or 0)
StatValue(st, rule) ==
    LET v == Get(st, rule["stat_key"], 0)
    IN  IF Truthy(v) THEN v ELSE 0

\* if rule.get("per") and rule["per"] > 0: floor(val / per) else val
Units(v, rule) ==
    IF (IF Truthy(Get(rule, "per", None)) THEN rule["per"] > 0 ELSE FALSE)
    THEN FloorDiv(v, rule["per"])
    ELSE v

\* float(rule.get("multiplier", 0)) raises TypeError on None
MultiplierRaises(rule) == Get(rule, "multiplier", 0) = None

\* base = units * float(rule.get("multiplier", 0))
Base(u, rule) == FMul(u, Get(rule, "multiplier", 0))

\* mutant of BonusApplies: val > bonus_min, the lower end exclusive
BonusAppliesExclusive(v, rule) ==
    IF Get(rule, "bonus_min", None) # None
    THEN IF v > rule["bonus_min"]
         THEN IF Get(rule, "bonus_max", None) = None
              THEN TRUE
              ELSE v <= rule["bonus_max"]
         ELSE FALSE
    ELSE FALSE

\* mutant of BonusApplies: the comparison with bonus_min left out
BonusAppliesUpperOnly(v, rule) ==
    IF Get(rule, "bonus_min", None) # None
    THEN IF Get(rule, "bonus_max", None) = None
         THEN TRUE
         ELSE v <= rule["bonus_max"]
    ELSE FALSE

\* the three nested ifs guarding the bonus assignment
BonusApplies(v, rule) ==
    IF Get(rule, "bonus_min", None) # None
    THEN IF v >= rule["bonus_min"]
         THEN IF Get(rule, "bonus_max", None) = None
              THEN TRUE
              ELSE v <= rule["bonus_max"]
         ELSE FALSE
    ELSE FALSE

\* float(rule.get("bonus_points", 0)) raises TypeError on None
BonusRaises(v, rule) ==
    BonusApplies(v, rule) /\ Get(rule, "bonus_points", 0) = None

\* bonus = 0.0, or float(rule.get("bonus_points", 0)) inside the ifs
Bonus(v, rule) ==
    IF BonusApplies(v, rule) THEN Get(rule, "bonus_points", 0) * Milli ELSE 0

\* mutant of ApplyCap: the cap as a bound on both sides, [-cap, cap]
ApplyCapSymmetric(s, rule) ==
    IF Get(rule, "cap", None) # None
    THEN LET c == Abs(rule["cap"] * Milli)
         IN  IF s > c THEN c ELSE IF s < 0 - c THEN 0 - c ELSE s
    ELSE s

\* if rule.get("cap") is not None: subtotal = min(subtotal, rule["cap"])
ApplyCap(s, rule) ==
    IF Get(rule, "cap", None) # None THEN Min(s, rule["cap"] * Milli) ELSE s

\* mutant of Subtotal: the cap applied to the base, the bonus added after
SubtotalCapBaseOnly(b, bn, rule) == FAdd(ApplyCap(b, rule), bn)

\* subtotal = base + bonus, then the cap: lines 84-88
Subtotal(b, bn, rule) == ApplyCap(FAdd(b, bn), rule)

\* the iteration raises TypeError
RuleRaises(st, rule) ==
    IF MultiplierRaises(rule) THEN TRUE
    ELSE BonusRaises(StatValue(st, rule), rule)

\* subtotal of one rule: base + bonus, then the cap
RuleSubtotal(st, rule) ==
    LET v == StatValue(st, rule)
    IN  Subtotal(Base(Units(v, rule), rule), Bonus(v, rule), rule)

\* mutant of Accumulate: total = subtotal
AccumulateOverwrite(t, s) == s

\* mutant of Accumulate: total += round(subtotal, 2)
AccumulateRounded(t, s) == FAdd(t, Round2(s))

\* total += subtotal
Accumulate(t, s) == FAdd(t, s)

\* return round(total, 2)
FinalScore(t) == Round2(t)

(***************************************************************************)
(* Inputs of a call                                                        *)
(***************************************************************************)
\* marks a key left out of a dict while the inputs are built
Absent == None - 1

\* the dict holding the keys of the record full that are not Absent
MkDict(full) ==
    [k \in {j \in DOMAIN full : j = "stat_key" \/ full[j] # Absent} |-> full[k]]

\* a rule dict; a field that is Absent is not a key of it
MkRule(sk, m, p, bmin, bmax, bp, c) ==
    MkDict([stat_key |-> sk, multiplier |-> m, per |-> p, bonus_min |-> bmin,
            bonus_max |-> bmax, bonus_points |-> bp, cap |-> c])

\* single rules on passing_yards, every combination of these field values
FieldRules ==
    { MkRule("passing_yards", m, p, bmin, bmax, bp, c) :
        m \in {Absent, None, 0 - 2000, 40, 1000},
        p \in {Absent, None, 0, 0 - 10000, 1000, 10000},
        bmin \in {Absent, None, 0 - 5000, 0, 100000},
        bmax \in {Absent, None, 100000, 200000},
        bp \in {Absent, None, 3000},
        c \in {Absent, None, 0 - 1000, 10000} }

\* the stat maps the single rules are scored on
FieldStats ==
    { MkDict([passing_yards |-> v]) :
        v \in {Absent, None, 0, 0 - 5000, 25000, 99999, 100000, 200000,
               200001, 500000} }

\* the end-to-end scenario: the first four rules of the tests'
\* sample_scoring_rules, their null fields left out
ScenarioRules ==
    << MkRule("passing_yards", 40, 1000, 300000, Absent, 3000, Absent),
       MkRule("passing_touchdowns", 4000, Absent, Absent, Absent, Absent, Absent),
       MkRule("interceptions", 0 - 2000, Absent, Absent, Absent, Absent, Absent),
       MkRule("rushing_yards", 100, 1000, 100000, Absent, 2000, Absent) >>

\* the stats of the scenario, sample_player_stats without its zero entry
ScenarioStats ==
    MkDict([passing_yards |-> 350000, passing_touchdowns |-> 3000,
            rushing_yards |-> 45000, interceptions |-> 1000])

\* the rules the RuleSets of several rules are drawn from
PoolRules ==
    { ScenarioRules[k] : k \in 1..4 } \cup
    { MkRule("passing_yards", 40, 1000, 300000, None, 3000, 10000),
      MkRule("rushing_yards", 1000, 10000, None, None, 0, None),
      MkRule("passing_yards", 33, 1000, None, None, 0, None),
      MkRule("receptions", 100, Absent, Absent, Absent, Absent, Absent),
      MkRule("targets", 1, Absent, Absent, Absent, Absent, Absent),
      MkRule("rushing_yards", 100, None, 0, None, None, None) }

\* the stat maps the RuleSets of several rules are scored on
PoolStats ==
    { ScenarioStats,
      MkDict([passing_yards |-> Absent]),
      MkDict([passing_yards |-> None, rushing_yards |-> 0]),
      MkDict([passing_yards |-> 500000, rushing_yards |-> 25000]),
      MkDict([passing_yards |-> 101000, rushing_yards |-> 100000,
              interceptions |-> 2000]),
      MkDict([receptions |-> 10149, targets |-> 40, rushing_yards |-> 0 - 5000]) }

\* the sequences over S of length at most n
RECURSIVE SeqsUpTo(_, _)
SeqsUpTo(S, n) ==
    IF n = 0 THEN { <<>> }
    ELSE LET shorter == SeqsUpTo(S, n - 1)
         IN  shorter \cup { Append(q, x) : q \in shorter, x \in S }

(***************************************************************************)
(* The call                                                                *)
(***************************************************************************)
\* total = 0.0, before the first iteration
Entry ==
    /\ pc = "loop"
    /\ idx = 1
    /\ total = 0
    /\ val = None /\ units = None /\ base = None /\ bonus = None
    /\ subtotal = None
    /\ result = None

\* no call has ended yet
NoHistory == history = <<>>

\* no second call is running
NoOtherCall ==
    other = [stats |-> <<>>, rules |-> <<>>, pc |-> "idle", idx |-> 1,
             total |-> 0, result |-> None]

\* get_default_scoring_profiles has not been called
NoDefaults == defaults = [pc |-> "none", value |-> <<>>, changes |-> 0]

\* player_week_stats is empty
NoStats == statRows = <<>>

\* what a request to a scoring-profile endpoint leaves alone
outsideStore ==
    <<callVars, history, other, validatorVars, catalogVars, statVars>>

\* validate_scoring_rule is not being called
NoValidation == vrule = <<>> /\ verdict = "none"

\* the tables are empty and no request has been answered
EmptyStore ==
    /\ profiles = <<>>
    /\ ruleRows = <<>>
    /\ nextId = 0
    /\ exported = <<>>
    /\ last = [op |-> "none", id |-> 0, data |-> <<>>, status |-> 0]

Init ==
    /\ \/ stats \in FieldStats /\ rules \in { <<r>> : r \in FieldRules }
       \/ stats \in PoolStats /\ rules \in SeqsUpTo(PoolRules, MaxRules)
       \/ stats = ScenarioStats /\ rules = ScenarioRules
    /\ Entry
    /\ NoHistory
    /\ NoOtherCall
    /\ NoValidation
    /\ EmptyStore
    /\ NoDefaults
    /\ NoStats

\* one iteration that completes: lines 65-90
LoopBody ==
    /\ pc = "loop"
    /\ idx <= Len(rules)
    /\ ~RuleRaises(stats, rules[idx])
    /\ LET rule == rules[idx]
           v == StatValue(stats, rule)
           u == Units(v, rule)
           b == Base(u, rule)
           bn == Bonus(v, rule)
           s == Subtotal(b, bn, rule)
       IN  /\ val' = v
           /\ units' = u
           /\ base' = b
           /\ bonus' = bn
           /\ subtotal' = s
           /\ total' = Accumulate(total, s)
    /\ idx' = idx + 1
    /\ UNCHANGED <<stats, rules, pc, result, history>>
    /\ UNCHANGED outsideCall

\* one iteration that raises TypeError out of the call: float(None) at line
\* 74 or line 81
RaiseTypeError ==
    /\ pc = "loop"
    /\ idx <= Len(rules)
    /\ RuleRaises(stats, rules[idx])
    /\ LET rule == rules[idx]
           v == StatValue(stats, rule)
           u == Units(v, rule)
       IN  /\ val' = v
           /\ units' = u
           /\ base' = IF MultiplierRaises(rule) THEN base ELSE Base(u, rule)
    /\ pc' = "raised"
    /\ history' = Append(history, [stats |-> stats, rules |-> rules,
                                    pc |-> "raised", result |-> None])
    /\ UNCHANGED <<stats, rules, idx, total, bonus, subtotal, result>>
    /\ UNCHANGED outsideCall

\* return round(total, 2), line 92
Return ==
    /\ pc = "loop"
    /\ idx > Len(rules)
    /\ result' = FinalScore(total)
    /\ pc' = "done"
    /\ history' = Append(history, [stats |-> stats, rules |-> rules,
                                    pc |-> "done", result |-> FinalScore(total)])
    /\ UNCHANGED <<stats, rules, idx, total, val, units, base, bonus, subtotal>>
    /\ UNCHANGED outsideCall

Next == LoopBody \/ RaiseTypeError \/ Return

Spec == Init /\ [][Next]_vars

(***************************************************************************)
(* The call as a function of its inputs                                    *)
(***************************************************************************)
\* the loop from rule i on with running total t: the outcome of the call
RECURSIVE LoopFrom(_, _, _, _)
LoopFrom(st, rs, i, t) ==
    IF i > Len(rs) THEN [pc |-> "done", result |-> FinalScore(t)]
    ELSE IF RuleRaises(st, rs[i]) THEN [pc |-> "raised", result |-> None]
    ELSE LoopFrom(st, rs, i + 1, Accumulate(t, RuleSubtotal(st, rs[i])))

\* compute_points_from_dict(stats, rules)
compute_points_from_dict(st, rs) == LoopFrom(st, rs, 1, 0)

(***************************************************************************)
(* The scoring rules as the specification states them                      *)
(***************************************************************************)
\* a field is present: it is a key of the rule and its value is not null
Present(rule, k) == IF k \in DOMAIN rule THEN rule[k] # None ELSE FALSE

\* the specified read of the stat: an absent or null entry is 0
SpecifiedVal(st, rule) ==
    IF Present(st, rule["stat_key"]) THEN st[rule["stat_key"]] ELSE 0

\* the specified units: floor(val / per) for a per > 0, else val
SpecifiedUnits(v, rule) ==
    IF (IF Present(rule, "per") THEN rule["per"] > 0 ELSE FALSE)
    THEN (v \div rule["per"]) * Milli
    ELSE v

\* the specified bonus range, both ends inclusive
InBonusRange(v, rule) ==
    /\ Present(rule, "bonus_min")
    /\ v >= rule["bonus_min"]
    /\ (Present(rule, "bonus_max") => v <= rule["bonus_max"])

\* the specified bonus: bonus_points, 0 when there are none
SpecifiedBonus(v, rule) ==
    IF InBonusRange(v, rule) /\ Present(rule, "bonus_points")
    THEN rule["bonus_points"] * Milli
    ELSE 0

\* the specified uncapped subtotal: units * multiplier + bonus
SpecifiedUncapped(st, rule) ==
    LET v == SpecifiedVal(st, rule)
        m == IF Present(rule, "multiplier") THEN rule["multiplier"] ELSE 0
    IN  FAdd(FMul(SpecifiedUnits(v, rule), m), SpecifiedBonus(v, rule))

\* the specified contribution of a rule: its own capped subtotal
SpecifiedSubtotal(st, rule) ==
    IF Present(rule, "cap")
    THEN Min(SpecifiedUncapped(st, rule), rule["cap"] * Milli)
    ELSE SpecifiedUncapped(st, rule)

\* the float sum of the first n specified contributions, in list order
RECURSIVE SpecifiedTotal(_, _, _)
SpecifiedTotal(st, rs, n) ==
    IF n = 0 THEN 0
    ELSE FAdd(SpecifiedTotal(st, rs, n - 1), SpecifiedSubtotal(st, rs[n]))

\* the call has ended, by return or by an exception
Ended == pc \in {"done", "raised"}

\* the locals val, units, base, bonus, subtotal hold a completed iteration,
\* that of rules[idx - 1]
Iterated == pc # "raised" /\ idx > 1

\* every rule carries a number as multiplier, or none at all
NumericMultipliers ==
    \A k \in 1..Len(rules) : Get(rules[k], "multiplier", 0) # None

(***************************************************************************)
(* Claims                                                                  *)
(***************************************************************************)

\* C1: the value a call returns is round(., 2) of the sum, in list order, of
\* every rule's own capped subtotal (units * multiplier + bonus, then the
\* cap), each rule contributing what it contributes as the only rule of a
\* RuleSet; the four-rule scenario scores 31.5.
C1_ScoreIsSumOfSubtotals ==
    pc = "done" =>
        /\ result = Round2(SpecifiedTotal(stats, rules, Len(rules)))
        /\ \A k \in 1..Len(rules) :
              compute_points_from_dict(stats, <<rules[k]>>).result
                  = Round2(SpecifiedSubtotal(stats, rules[k]))
        /\ (stats = ScenarioStats /\ rules = ScenarioRules
               => result = 31500 * Milli)

\* C1 witness: the scenario has returned 31.5
C1_Witness ==
    /\ pc = "done"
    /\ stats = ScenarioStats
    /\ rules = ScenarioRules
    /\ result = 31500 * Milli

\* C2: the engine cannot fail: whatever optional fields are absent or null,
\* a call on rules with numeric multipliers raises no error.
C2_EngineNeverRaises == NumericMultipliers => pc # "raised"

\* C3 as stated: on the empty StatMap, rules whose bonus_min is absent or
\* > 0 score exactly 0.0, whatever their other fields, a negative cap
\* included.
C3_EmptyStatsScoreZero_AnyCap ==
    ( /\ Ended
      /\ DOMAIN stats = {}
      /\ NumericMultipliers
      /\ \A k \in 1..Len(rules) :
            Present(rules[k], "bonus_min") => rules[k]["bonus_min"] > 0 )
    => (pc = "done" /\ result = 0)

\* C3 amended: on the empty StatMap, rules whose bonus_min is absent or > 0
\* and whose cap is absent or not negative score exactly 0.0.
C3_EmptyStatsScoreZero ==
    ( /\ Ended
      /\ DOMAIN stats = {}
      /\ NumericMultipliers
      /\ \A k \in 1..Len(rules) :
            /\ Present(rules[k], "bonus_min") => rules[k]["bonus_min"] > 0
            /\ Present(rules[k], "cap") => rules[k]["cap"] >= 0 )
    => (pc = "done" /\ result = 0)

\* C3 witness: a rule with a bonus range above 0, bonus points, a per and a
\* cap has scored 0 on the empty StatMap
C3_Witness ==
    /\ pc = "done"
    /\ DOMAIN stats = {}
    /\ Len(rules) = 1
    /\ Present(rules[1], "bonus_min") /\ rules[1]["bonus_min"] > 0
    /\ Present(rules[1], "bonus_points")
    /\ Present(rules[1], "cap") /\ rules[1]["cap"] > 0
    /\ Present(rules[1], "per") /\ rules[1]["per"] > 0
    /\ Present(rules[1], "multiplier") /\ rules[1]["multiplier"] < 0
    /\ result = 0

\* C4: with a per > 0 the units are floor(val / per), rounded toward minus
\* infinity; with per absent, null, zero or negative they are val itself;
\* multiplier 1.0, per 10, value 25 scores 2.0.
C4_PerUnitFloor ==
    /\ (pc = "raised" \/ idx > 1) =>
          LET rule == IF pc = "raised" THEN rules[idx] ELSE rules[idx - 1]
          IN  IF Present(rule, "per") /\ rule["per"] > 0
              THEN /\ units % Milli = 0
                   /\ (units \div Milli) * rule["per"] <= val
                   /\ val < (units \div Milli + 1) * rule["per"]
              ELSE units = val
    /\ ( /\ pc = "done"
         /\ rules = << MkRule("passing_yards", 1000, 10000, Absent, Absent,
                              Absent, Absent) >>
         /\ Get(stats, "passing_yards", 0) = 25000 )
       => result = 2000 * Milli

\* C4 witness: the negative quotient -5 / 10 has been floored to -1
C4_Witness ==
    /\ pc = "done"
    /\ Len(rules) = 1
    /\ Present(rules[1], "per") /\ rules[1]["per"] = 10000
    /\ val = 0 - 5000
    /\ units = 0 - 1000

\* C5: the bonus of a rule is its bonus_points (0 without bonus_points) if
\* and only if bonus_min is present and the raw value val lies in
\* [bonus_min, bonus_max], both ends inclusive, bonus_max absent meaning
\* unbounded; otherwise it is 0. The amount does not depend on val.
C5_BonusInclusiveFlat ==
    Iterated =>
        LET rule == rules[idx - 1]
            lo == Present(rule, "bonus_min") /\ val >= rule["bonus_min"]
            hi == ~Present(rule, "bonus_max") \/ val <= rule["bonus_max"]
        IN  /\ (lo /\ hi) =>
                  bonus = IF Present(rule, "bonus_points")
                          THEN rule["bonus_points"] * Milli
                          ELSE 0
            /\ ~(lo /\ hi) => bonus = 0

\* C5 witness: a value equal to bonus_min has earned the bonus although the
\* floored units are below bonus_min
C5_Witness ==
    /\ Iterated
    /\ Present(rules[idx - 1], "bonus_min")
    /\ val = rules[idx - 1]["bonus_min"]
    /\ units < val
    /\ bonus = 3000 * Milli

\* the spec's cap example: 0.04 per yard, bonus 3 from 300 yards, cap 10.0
CapExampleRule ==
    MkRule("passing_yards", 40, 1000, 300000, None, 3000, 10000)

\* C6: with a cap present the contribution of a rule is
\* min(base + bonus, cap), the cap bounding base and bonus together and
\* leaving a subtotal below it unchanged; without a cap it is base + bonus;
\* base 20.0 + bonus 3.0 under cap 10.0 contributes 10.0.
C6_CapCeiling ==
    Iterated =>
        LET rule == rules[idx - 1]
            sum == FAdd(base, bonus)
        IN  /\ Present(rule, "cap") /\ sum > rule["cap"] * Milli
                  => subtotal = rule["cap"] * Milli
            /\ Present(rule, "cap") /\ sum <= rule["cap"] * Milli
                  => subtotal = sum
            /\ ~Present(rule, "cap") => subtotal = sum
            /\ (rule = CapExampleRule /\ val = 500000)
                  => (base = 20000 * Milli /\ bonus = 3000 * Milli
                        /\ subtotal = 10000 * Milli)

\* C6 witness: the cap example has contributed 10.0, its base alone being
\* above the cap
C6_Witness ==
    /\ Iterated
    /\ rules[idx - 1] = CapExampleRule
    /\ val = 500000
    /\ base = 20000 * Milli
    /\ bonus = 3000 * Milli
    /\ subtotal = 10000 * Milli

\* C7: a cap bounds its own rule only: it never raises a contribution, the
\* contribution of a rule is decided by that rule's fields alone, and the
\* running total is the plain sum of the contributions, never capped
\* itself.
C7_CapOwnRuleOnly ==
    /\ Iterated => subtotal <= FAdd(base, bonus)
    /\ Iterated => subtotal = SpecifiedSubtotal(stats, rules[idx - 1])
    /\ pc # "raised" => total = SpecifiedTotal(stats, rules, idx - 1)

\* C7 witness: a rule held at its cap has been followed by another rule
\* and the total is above that cap
C7_Witness ==
    /\ pc = "done"
    /\ Len(rules) = 2
    /\ rules[1] = CapExampleRule
    /\ SpecifiedSubtotal(stats, rules[1]) = 10000 * Milli
    /\ subtotal > 0
    /\ result > 10000 * Milli

\* the StatMap with every absent or null entry a rule reads set to 0
ZeroFilled(st, rs) ==
    LET read == { rs[k]["stat_key"] : k \in 1..Len(rs) }
    IN  [key \in DOMAIN st \cup read |->
            IF Present(st, key) THEN st[key] ELSE 0]

\* C8: a stat key absent from the StatMap and one present with a null
\* value both read as 0: the call ends as it does on the StatMap that
\* maps those keys to 0.
C8_AbsentOrNullStatIsZero ==
    /\ Ended =>
          compute_points_from_dict(ZeroFilled(stats, rules), rules)
              = [pc |-> pc, result |-> result]
    /\ (pc = "raised" \/ idx > 1) =>
          LET rule == IF pc = "raised" THEN rules[idx] ELSE rules[idx - 1]
          IN  ~Present(stats, rule["stat_key"]) => val = 0

\* C8 witness: a rule whose bonus range holds 0 has read a null stat and
\* earned its bonus
C8_Witness ==
    /\ pc = "done"
    /\ Len(rules) = 1
    /\ rules[1]["stat_key"] \in DOMAIN stats
    /\ stats[rules[1]["stat_key"]] = None
    /\ val = 0
    /\ bonus = 3000 * Milli
    /\ result = 3000 * Milli

\* the float sum of the first n specified contributions, each rounded to 2
\* decimals before it is added
RECURSIVE RoundedEachTotal(_, _, _)
RoundedEachTotal(st, rs, n) ==
    IF n = 0 THEN 0
    ELSE FAdd(RoundedEachTotal(st, rs, n - 1),
              Round2(SpecifiedSubtotal(st, rs[n])))

\* C9: the returned score is a multiple of 0.01, and it is the multiple
\* nearest to the total accumulated from the unrounded subtotals: rounding
\* happens once, after the last rule; 0.033 per yard on 101 yards gives
\* raw 3.333 and returns 3.33.
C9_RoundedOnceToTwoDecimals ==
    pc = "done" =>
        LET sum == SpecifiedTotal(stats, rules, Len(rules))
        IN  /\ result % Cent = 0
            /\ 2 * Abs(result - sum) <= Cent
            /\ total = sum
            /\ ( /\ rules = << MkRule("passing_yards", 33, 1000, None, None,
                                      0, None) >>
                 /\ Get(stats, "passing_yards", 0) = 101000 )
               => (total = 3333 * Milli /\ result = 3330 * Milli)

\* C9 witness: two subtotals of 3.333 have returned 6.67, where rounding
\* each subtotal first gives 6.66
C9_Witness ==
    /\ pc = "done"
    /\ Len(rules) = 2
    /\ subtotal = 3333 * Milli
    /\ total = 6666 * Milli
    /\ result = 6670 * Milli
    /\ Round2(RoundedEachTotal(stats, rules, 2)) = 6660 * Milli

\* the orders of n rules
Orders(n) == { f \in [1..n -> 1..n] : \A i, j \in 1..n : f[i] = f[j] => i = j }

\* C10: rule order does not affect the total: every permutation of the
\* rules ends as the original order does, with the same score.
C10_OrderIndependent ==
    Ended =>
        \A f \in Orders(Len(rules)) :
            compute_points_from_dict(stats, [k \in 1..Len(rules) |-> rules[f[k]]])
                = [pc |-> pc, result |-> result]

(***************************************************************************)
(* C11: stat keys no rule references                                       *)
(***************************************************************************)
\* the stat keys the rules and stat maps of the model use, and one more
StatKeys ==
    {"passing_yards", "passing_touchdowns", "interceptions", "rushing_yards",
     "receptions", "targets", "fumbles"}

\* the stat keys some rule of rs references
ReferencedKeys(rs) == { rs[k]["stat_key"] : k \in 1..Len(rs) }

\* the values an entry is set to; Absent removes the entry
EntryValues == {Absent, None, 0, 0 - 5000, 777 * Milli}

\* st with the entry of key k set to v, or removed
SetStat(st, k, v) ==
    IF v = Absent THEN [j \in DOMAIN st \ {k} |-> st[j]]
    ELSE [j \in DOMAIN st \cup {k} |-> IF j = k THEN v ELSE st[j]]

\* C11: a stat key referenced by no rule is ignored: adding, removing or
\* changing the entry of a key that is the stat_key of no rule leaves the
\* outcome of the call, and so the score, unchanged.
C11_UnreferencedStatIgnored ==
    Ended =>
        \A k \in StatKeys \ ReferencedKeys(rules) :
            \A v \in EntryValues :
                compute_points_from_dict(SetStat(stats, k, v), rules)
                    = [pc |-> pc, result |-> result]

\* C11 witness: a call has returned a score other than 0 on stats that hold
\* a non-zero entry no rule references, next to a rule whose key is missing
C11_Witness ==
    /\ pc = "done"
    /\ result # 0
    /\ Len(rules) >= 2
    /\ \E k \in DOMAIN stats \ ReferencedKeys(rules) : Truthy(stats[k])
    /\ \E k \in ReferencedKeys(rules) : k \notin DOMAIN stats

(***************************************************************************)
(* C12: calls made one after another                                       *)
(***************************************************************************)
\* the number of calls made one after another
MaxCalls == 3

\* the stat maps of the repeated calls
RepeatStats ==
    { ScenarioStats,
      MkDict([passing_yards |-> Absent]),
      MkDict([passing_yards |-> 101000, rushing_yards |-> 100000,
              interceptions |-> 2000]) }

\* the RuleSets of the repeated calls; the last one raises where its bonus
\* applies
RepeatRuleSets ==
    { << ScenarioRules[1], ScenarioRules[4] >>,
      << MkRule("passing_yards", 33, 1000, None, None, 0, None),
         MkRule("passing_yards", 33, 1000, None, None, 0, None) >>,
      << MkRule("interceptions", 0 - 2000, Absent, Absent, Absent, Absent, Absent),
         MkRule("rushing_yards", 100, None, 0, None, None, None) >> }

InitRepeat ==
    /\ stats \in RepeatStats
    /\ rules \in RepeatRuleSets
    /\ Entry
    /\ NoHistory
    /\ NoOtherCall
    /\ NoValidation
    /\ EmptyStore
    /\ NoDefaults
    /\ NoStats

\* mutant of Call: the running total is kept from the call before, as a
\* module-level accumulator would be
CallKeepingTotal ==
    /\ Ended
    /\ Len(history) < MaxCalls
    /\ stats' \in RepeatStats
    /\ rules' \in RepeatRuleSets
    /\ pc' = "loop"
    /\ idx' = 1
    /\ val' = None /\ units' = None /\ base' = None /\ bonus' = None
    /\ subtotal' = None
    /\ result' = None
    /\ UNCHANGED <<total, history>>
    /\ UNCHANGED outsideCall

\* the function is called again once the call before has ended: new
\* arguments, total = 0.0, no other local bound
Call ==
    /\ Ended
    /\ Len(history) < MaxCalls
    /\ stats' \in RepeatStats
    /\ rules' \in RepeatRuleSets
    /\ pc' = "loop"
    /\ idx' = 1
    /\ total' = 0
    /\ val' = None /\ units' = None /\ base' = None /\ bonus' = None
    /\ subtotal' = None
    /\ result' = None
    /\ UNCHANGED history
    /\ UNCHANGED outsideCall

NextRepeat == LoopBody \/ RaiseTypeError \/ Return \/ Call

SpecRepeat == InitRepeat /\ [][NextRepeat]_vars

\* C12: determinism: two calls on the same stats and rules end alike, with
\* the same score or both raising, whatever calls were made before them and
\* between them; nothing of a call is left for the next.
C12_RepeatedCallsAgree ==
    \A i, j \in 1..Len(history) :
        (history[i].stats = history[j].stats /\ history[i].rules = history[j].rules)
            => (history[i].pc = history[j].pc /\ history[i].result = history[j].result)

\* C12 witness: a call that returned a score other than 0 has been repeated
\* after a call on other arguments that returned another score
C12_Witness ==
    /\ Len(history) = 3
    /\ history[1].stats = history[3].stats
    /\ history[1].rules = history[3].rules
    /\ history[2].stats # history[1].stats
    /\ history[2].rules # history[1].rules
    /\ history[1].pc = "done"
    /\ history[1].result # 0
    /\ history[2].pc = "done"
    /\ history[2].result # 0
    /\ history[2].result # history[1].result

(***************************************************************************)
(* C13: two calls running concurrently                                     *)
(***************************************************************************)
\* a second call is at its entry, next to the first
InitConcurrent ==
    /\ stats \in RepeatStats
    /\ rules \in RepeatRuleSets
    /\ Entry
    /\ NoHistory
    /\ \E st \in RepeatStats, rs \in RepeatRuleSets :
           other = [stats |-> st, rules |-> rs, pc |-> "loop", idx |-> 1,
                    total |-> 0, result |-> None]
    /\ NoValidation
    /\ EmptyStore
    /\ NoDefaults
    /\ NoStats

\* mutant of OtherLoopBody: the two calls accumulate into one shared total
OtherLoopBodySharedTotal ==
    /\ other.pc = "loop"
    /\ other.idx <= Len(other.rules)
    /\ ~RuleRaises(other.stats, other.rules[other.idx])
    /\ LET s == RuleSubtotal(other.stats, other.rules[other.idx])
       IN  /\ total' = Accumulate(total, s)
           /\ other' = [other EXCEPT !.total = Accumulate(total, s),
                                     !.idx = @ + 1]
    /\ UNCHANGED <<stats, rules, pc, idx, val, units, base, bonus, subtotal,
                   result, history>>
    /\ UNCHANGED <<validatorVars, storeVars, catalogVars, statVars>>

\* one iteration of the loop of the second call, on its own frame
OtherLoopBody ==
    /\ other.pc = "loop"
    /\ other.idx <= Len(other.rules)
    /\ ~RuleRaises(other.stats, other.rules[other.idx])
    /\ LET s == RuleSubtotal(other.stats, other.rules[other.idx])
       IN  other' = [other EXCEPT !.total = Accumulate(@, s), !.idx = @ + 1]
    /\ UNCHANGED <<callVars, history, validatorVars, storeVars, catalogVars,
                   statVars>>

\* one iteration of the second call that raises TypeError out of it
OtherRaiseTypeError ==
    /\ other.pc = "loop"
    /\ other.idx <= Len(other.rules)
    /\ RuleRaises(other.stats, other.rules[other.idx])
    /\ other' = [other EXCEPT !.pc = "raised"]
    /\ UNCHANGED <<callVars, history, validatorVars, storeVars, catalogVars,
                   statVars>>

\* return round(total, 2) of the second call
OtherReturn ==
    /\ other.pc = "loop"
    /\ other.idx > Len(other.rules)
    /\ other' = [other EXCEPT !.pc = "done", !.result = FinalScore(other.total)]
    /\ UNCHANGED <<callVars, history, validatorVars, storeVars, catalogVars,
                   statVars>>

NextConcurrent ==
    \/ LoopBody \/ RaiseTypeError \/ Return
    \/ OtherLoopBody \/ OtherRaiseTypeError \/ OtherReturn

SpecConcurrent == InitConcurrent /\ [][NextConcurrent]_vars

\* C13: concurrent calls are independent: however the iterations of two
\* calls interleave, each call that has ended has ended as the call on its
\* own stats and rules ends when it runs alone.
C13_ConcurrentCallsIndependent ==
    /\ Ended =>
           compute_points_from_dict(stats, rules) = [pc |-> pc, result |-> result]
    /\ other.pc \in {"done", "raised"} =>
           compute_points_from_dict(other.stats, other.rules)
               = [pc |-> other.pc, result |-> other.result]

\* C13 witness: the two calls, started together on different arguments of
\* two rules each, have both returned, with different scores other than 0
C13_Witness ==
    /\ pc = "done"
    /\ result # 0
    /\ other.pc = "done"
    /\ other.result # 0
    /\ other.result # result
    /\ other.stats # stats
    /\ other.rules # rules
    /\ Len(rules) = 2
    /\ Len(other.rules) = 2

\* C13, its second half: no step of either call modifies the arguments of
\* a call.
C13_InputsNotModified ==
    [][ /\ stats' = stats
        /\ rules' = rules
        /\ other'.stats = other.stats
        /\ other'.rules = other.rules ]_vars

(***************************************************************************)
(* validate_scoring_rule                                                   *)
(*                                                                         *)
(* A rule is a dict as before.  A field may also hold a value float()      *)
(* rejects with ValueError, such as the string "invalid": Invalid.         *)
(***************************************************************************)
\* a value that is not numeric, such as "invalid"
Invalid == None - 2

\* float(x) raises: TypeError on None, ValueError on a non-numeric string
FloatRaises(x) == IF x = None THEN TRUE ELSE x = Invalid

\* mutant of RequiredMissing: required_fields = ["stat_key", "multiplier",
\* "per"]
RequiredMissingPerToo(rule) ==
    IF "stat_key" \notin DOMAIN rule THEN TRUE
    ELSE IF "multiplier" \notin DOMAIN rule THEN TRUE
    ELSE "per" \notin DOMAIN rule

\* for field in required_fields: if field not in rule
RequiredMissing(rule) ==
    IF "stat_key" \notin DOMAIN rule THEN TRUE
    ELSE "multiplier" \notin DOMAIN rule

\* multiplier = float(rule["multiplier"]) raises
MultiplierRejected(rule) == FloatRaises(rule["multiplier"])

\* mutant of PerRejected: if per < 0
PerRejectedNegativeOnly(rule) ==
    LET p == Get(rule, "per", None)
    IN  IF p = None THEN FALSE
        ELSE IF FloatRaises(p) THEN TRUE
        ELSE p < 0

\* if rule.get("per") is not None: float(rule["per"]) raises, or per <= 0
PerRejected(rule) ==
    LET p == Get(rule, "per", None)
    IN  IF p = None THEN FALSE
        ELSE IF FloatRaises(p) THEN TRUE
        ELSE p <= 0

\* if rule.get("bonus_min") is not None: float(rule["bonus_min"]) raises
BonusMinRejected(rule) ==
    LET lo == Get(rule, "bonus_min", None)
    IN  IF lo = None THEN FALSE ELSE FloatRaises(lo)

\* mutant of BonusMaxRejected: bonus_max < bonus_min, equal bounds pass
BonusMaxRejectedStrict(rule) ==
    LET lo == Get(rule, "bonus_min", None)
        hi == Get(rule, "bonus_max", None)
    IN  IF hi = None THEN FALSE
        ELSE IF FloatRaises(hi) THEN TRUE
        ELSE IF lo = None THEN FALSE
        ELSE hi < lo

\* if rule.get("bonus_max") is not None: float(rule["bonus_max"]) raises, or
\* bonus_min is not None and bonus_max <= float(rule["bonus_min"]); reached
\* only with a bonus_min that float() took
BonusMaxRejected(rule) ==
    LET lo == Get(rule, "bonus_min", None)
        hi == Get(rule, "bonus_max", None)
    IN  IF hi = None THEN FALSE
        ELSE IF FloatRaises(hi) THEN TRUE
        ELSE IF lo = None THEN FALSE
        ELSE hi <= lo

\* if rule.get("cap") is not None: float(rule["cap"]) raises
CapRejected(rule) ==
    LET c == Get(rule, "cap", None)
    IN  IF c = None THEN FALSE ELSE FloatRaises(c)

\* the value validate_scoring_rule returns: False at the first check that
\* fails, in the order of the code, True after the last
validate_scoring_rule(rule) ==
    IF RequiredMissing(rule) THEN FALSE
    ELSE IF MultiplierRejected(rule) THEN FALSE
    ELSE IF PerRejected(rule) THEN FALSE
    ELSE IF BonusMinRejected(rule) THEN FALSE
    ELSE IF BonusMaxRejected(rule) THEN FALSE
    ELSE IF CapRejected(rule) THEN FALSE
    ELSE TRUE

\* the dict d without its key k
WithoutKey(d, k) == [j \in DOMAIN d \ {k} |-> d[j]]

\* the rules validated: every combination of these field values, with the
\* stat_key a name, the empty string, or not a key of the rule
ValidatorRules ==
    LET keyed ==
            { MkRule(sk, m, p, bmin, bmax, bp, c) :
                sk \in {"passing_yards", ""},
                m \in {Absent, None, Invalid, 40},
                p \in {Absent, None, Invalid, 0, 0 - 10000, 1000},
                bmin \in {Absent, None, Invalid, 100000},
                bmax \in {Absent, None, Invalid, 50000, 100000, 200000},
                bp \in {Absent, None, 3000},
                c \in {Absent, None, Invalid, 10000} }
    IN  keyed \cup { WithoutKey(r, "stat_key") : r \in keyed }

\* compute_points_from_dict is not being called
NoCall ==
    /\ stats = <<>>
    /\ rules = <<>>
    /\ pc = "idle"
    /\ idx = 1
    /\ total = 0
    /\ val = None /\ units = None /\ base = None /\ bonus = None
    /\ subtotal = None
    /\ result = None

InitValidate ==
    /\ vrule \in ValidatorRules
    /\ verdict = "pending"
    /\ NoCall
    /\ NoHistory
    /\ NoOtherCall
    /\ EmptyStore
    /\ NoDefaults
    /\ NoStats

\* the call validate_scoring_rule(vrule), which returns True or False
Validate ==
    /\ verdict = "pending"
    /\ verdict' = IF validate_scoring_rule(vrule) THEN "True" ELSE "False"
    /\ UNCHANGED vrule
    /\ UNCHANGED <<callVars, history, other, storeVars, catalogVars, statVars>>

NextValidate == Validate

SpecValidate == InitValidate /\ [][NextValidate]_vars

(***************************************************************************)
(* C14..C18: what the validator is specified to reject and to accept       *)
(***************************************************************************)
\* the validator has returned
Validated == verdict \in {"True", "False"}

\* field k of the rule is absent or null
Unset(rule, k) == IF k \in DOMAIN rule THEN rule[k] = None ELSE TRUE

\* field k of the rule is present and holds a number
HasNumber(rule, k) ==
    IF k \in DOMAIN rule THEN (rule[k] # None /\ rule[k] # Invalid) ELSE FALSE

\* the stat_key is present and not the empty string
StatKeyGiven(rule) ==
    IF "stat_key" \in DOMAIN rule THEN rule["stat_key"] # "" ELSE FALSE

\* per is absent, null, or a number greater than 0
PerWellFormed(rule) ==
    IF Unset(rule, "per") THEN TRUE
    ELSE IF HasNumber(rule, "per") THEN rule["per"] > 0
    ELSE FALSE

\* both bounds of the bonus range are numbers
BothBounds(rule) ==
    IF HasNumber(rule, "bonus_min") THEN HasNumber(rule, "bonus_max") ELSE FALSE

\* both bounds are numbers and bonus_max <= bonus_min
RangeInverted(rule) ==
    IF BothBounds(rule) THEN rule["bonus_max"] <= rule["bonus_min"] ELSE FALSE

\* the rule gives no ground for rejection other than its bonus range
NoGroundButRange(rule) ==
    /\ StatKeyGiven(rule)
    /\ HasNumber(rule, "multiplier")
    /\ PerWellFormed(rule)
    /\ \A k \in {"bonus_min", "bonus_max", "cap"} :
           Unset(rule, k) \/ HasNumber(rule, k)

\* the rule gives no ground for rejection other than its per
NoGroundButPer(rule) ==
    /\ StatKeyGiven(rule)
    /\ HasNumber(rule, "multiplier")
    /\ \A k \in {"bonus_min", "bonus_max", "cap"} :
           Unset(rule, k) \/ HasNumber(rule, k)
    /\ ~RangeInverted(rule)

\* C14: the validator rejects every rule in which both bonus_min and
\* bonus_max are present and bonus_max <= bonus_min, equal bounds included,
\* and does not reject on range grounds: a rule that gives no other ground
\* is accepted when only one bound is present or when bonus_max > bonus_min.
C14_InvertedRangeRejected ==
    Validated =>
        /\ RangeInverted(vrule) => verdict = "False"
        /\ (NoGroundButRange(vrule) /\ ~RangeInverted(vrule)) => verdict = "True"
        /\ ( /\ Get(vrule, "bonus_min", None) = 100000
             /\ Get(vrule, "bonus_max", None) = 50000 ) => verdict = "False"

\* C14 witness: a rule with equal bounds, otherwise well formed, was
\* rejected
C14_Witness ==
    /\ verdict = "False"
    /\ NoGroundButRange(vrule)
    /\ BothBounds(vrule)
    /\ vrule["bonus_max"] = vrule["bonus_min"]

\* C15: the validator rejects every rule whose per is present and is zero,
\* negative or not numeric, and accepts per when it is absent, null or a
\* number greater than 0: a rule that gives no other ground is then
\* accepted.
C15_PerMustBePositive ==
    Validated =>
        /\ ~PerWellFormed(vrule) => verdict = "False"
        /\ (NoGroundButPer(vrule) /\ PerWellFormed(vrule)) => verdict = "True"

\* C15 witness: a rule with per 0, otherwise well formed, was rejected
C15_Witness ==
    /\ verdict = "False"
    /\ NoGroundButPer(vrule)
    /\ Get(vrule, "per", None) = 0

\* C16: the validator rejects every rule whose stat_key is absent or is the
\* empty string, and every rule whose multiplier is absent, null or not
\* numeric.
C16_RequiredFieldsRejected ==
    Validated =>
        /\ ~StatKeyGiven(vrule) => verdict = "False"
        /\ ~HasNumber(vrule, "multiplier") => verdict = "False"

\* the rules of the tests that are to be rejected, and one with a
\* non-numeric cap, each failing one check only
MissingMultiplierRule ==
    MkRule("passing_yards", Absent, 1000, Absent, Absent, Absent, Absent)

ZeroPerRule == MkRule("passing_yards", 40, 0, Absent, Absent, Absent, Absent)

InvalidCapRule ==
    MkRule("passing_yards", 40, Absent, Absent, Absent, Absent, Invalid)

InvertedRangeRule ==
    MkRule("passing_yards", 40, 1000, 100000, 50000, 3000, Absent)

\* the check of the spec a rule fails first, "none" if it fails none
FailedCheck(rule) ==
    IF ~StatKeyGiven(rule) \/ ~HasNumber(rule, "multiplier") THEN "MissingField"
    ELSE IF ~PerWellFormed(rule) THEN "InvalidPer"
    ELSE IF \E k \in {"bonus_min", "bonus_max", "cap"} :
                ~(Unset(rule, k) \/ HasNumber(rule, k)) THEN "InvalidNumeric"
    ELSE IF RangeInverted(rule) THEN "BonusRangeInverted"
    ELSE "none"

\* what the validator reports for a rule
Reported(rule) == IF validate_scoring_rule(rule) THEN "True" ELSE "False"

\* C17: a rejection identifies the check that failed: rules that fail
\* different checks (a missing or non-numeric multiplier, a per that is not
\* > 0, a non-numeric optional bound, an inverted bonus range) are reported
\* differently, not with one undifferentiated result.
C17_RejectionNamesTheCheck ==
    (Validated /\ FailedCheck(vrule) # "none") =>
        \A r \in {MissingMultiplierRule, ZeroPerRule, InvalidCapRule,
                  InvertedRangeRule} :
            FailedCheck(r) # FailedCheck(vrule) => Reported(r) # verdict

\* the rule violates none of the checks of the validator
ViolatesNoCheck(rule) == FailedCheck(rule) = "none"

\* C18: the validator accepts every rule that violates none of its checks,
\* so every rule with a non-empty stat_key, a numeric multiplier and all of
\* per, bonus_min, bonus_max, bonus_points and cap absent or null.
C18_WellFormedAccepted ==
    Validated =>
        /\ ViolatesNoCheck(vrule) => verdict = "True"
        /\ ( /\ StatKeyGiven(vrule)
             /\ HasNumber(vrule, "multiplier")
             /\ \A k \in {"per", "bonus_min", "bonus_max", "bonus_points", "cap"} :
                    Unset(vrule, k) ) => verdict = "True"

\* C18 witness: a rule holding only a stat_key and a multiplier was accepted
C18_Witness ==
    /\ verdict = "True"
    /\ DOMAIN vrule = {"stat_key", "multiplier"}
    /\ vrule["stat_key"] = "passing_yards"
    /\ vrule["multiplier"] = 40

\* C18, its last part: validating a rule does not modify it.
C18_RuleNotModified == [][vrule' = vrule]_vars

(***************************************************************************)
(* get_default_scoring_profiles                                            *)
(***************************************************************************)
\* a rule of the catalog without per: {"stat_key": sk, "multiplier": m}
Flat(sk, m) == MkRule(sk, m, Absent, Absent, Absent, Absent, Absent)

\* a rule of the catalog with per: {"stat_key": sk, "multiplier": m, "per": p}
Per(sk, m, p) == MkRule(sk, m, p, Absent, Absent, Absent, Absent)

\* the list under "Standard"
StandardRules ==
    << Per("passing_yards", 40, 1000),
       Flat("passing_touchdowns", 4000),
       Flat("passing_interceptions", 0 - 2000),
       Per("rushing_yards", 100, 1000),
       Flat("rushing_touchdowns", 6000),
       Per("receiving_yards", 100, 1000),
       Flat("receiving_touchdowns", 6000),
       Flat("receptions", 500),
       Flat("fumbles_lost", 0 - 2000) >>

\* the list under "PPR"
PPRRules ==
    << Per("passing_yards", 40, 1000),
       Flat("passing_touchdowns", 4000),
       Flat("passing_interceptions", 0 - 2000),
       Per("rushing_yards", 100, 1000),
       Flat("rushing_touchdowns", 6000),
       Per("receiving_yards", 100, 1000),
       Flat("receiving_touchdowns", 6000),
       Flat("receptions", 1000),
       Flat("fumbles_lost", 0 - 2000) >>

\* the list under "Half PPR"
HalfPPRRules ==
    << Per("passing_yards", 40, 1000),
       Flat("passing_touchdowns", 4000),
       Flat("passing_interceptions", 0 - 2000),
       Per("rushing_yards", 100, 1000),
       Flat("rushing_touchdowns", 6000),
       Per("receiving_yards", 100, 1000),
       Flat("receiving_touchdowns", 6000),
       Flat("receptions", 500),
       Flat("fumbles_lost", 0 - 2000) >>

\* the dict the function returns, built anew by each call
get_default_scoring_profiles ==
    [n \in {"Standard", "PPR", "Half PPR"} |->
        IF n = "Standard" THEN StandardRules
        ELSE IF n = "PPR" THEN PPRRules
        ELSE HalfPPRRules]

(***************************************************************************)
(* The scoring-profile endpoints of routers/fantasy.py                     *)
(*                                                                         *)
(* profiles and ruleRows are the rows of the two tables in the order they  *)
(* were inserted; a rule row is known by its place, its rule_id (a fresh   *)
(* uuid4 nothing refers to) left out, as is created_at.  A profile_id is   *)
(* the number of the uuid4 drawn for it.  Each request runs in its own     *)
(* session and commits once, so a handler is one step.  A request body has *)
(* passed ScoringProfileCreate: every rule holds its seven fields.         *)
(* profile.rules, read by the export, is taken to load the rule rows of    *)
(* the profile in row order.                                               *)
(***************************************************************************)
\* the number of profile ids requests can draw; a seeding that starts
\* within it draws its three
MaxProfileIds == 3

\* the profile ids of the requests: every id drawn so far, and one that
\* was never drawn
ProfileIds == 1..(nextId + 1)

\* description = None
NoDescription == "None"

\* a rule of a request body, every field set or None
RuleData(sk, m, p, bmin, bmax, bp, c) ==
    [stat_key |-> sk, multiplier |-> m, per |-> p, bonus_min |-> bmin,
     bonus_max |-> bmax, bonus_points |-> bp, cap |-> c]

\* the request bodies: two profiles of the same two rules in different
\* order, and one whose rules have per 0 and an inverted bonus range
ProfilePayloads ==
    { [name |-> "Standard", description |-> "standard scoring",
       is_public |-> TRUE,
       rules |-> << RuleData("passing_yards", 40, 1000, 300000, None, 3000, None),
                    RuleData("interceptions", 0 - 2000, None, None, None, None,
                             None) >>],
      [name |-> "Custom", description |-> NoDescription, is_public |-> FALSE,
       rules |-> << RuleData("interceptions", 0 - 2000, None, None, None, None,
                             None),
                    RuleData("passing_yards", 40, 1000, 300000, None, 3000,
                             10000) >>],
      [name |-> "Broken", description |-> NoDescription, is_public |-> TRUE,
       rules |-> << RuleData("rushing_yards", 100, 0, None, None, None, None),
                    RuleData("passing_yards", 40, 1000, 100000, 50000, 3000,
                             None) >>] }

\* the row ScoringProfile(profile_id=..., name=..., description=...,
\* is_public=...)
ProfileRow(pid, data) ==
    [profile_id |-> pid, name |-> data.name, description |-> data.description,
     is_public |-> data.is_public]

\* the row ScoringRule(profile_id=..., stat_key=rule_data.stat_key, ...)
RuleRow(pid, r) ==
    [profile_id |-> pid, stat_key |-> r.stat_key, multiplier |-> r.multiplier,
     per |-> r.per, bonus_min |-> r.bonus_min, bonus_max |-> r.bonus_max,
     bonus_points |-> r.bonus_points, cap |-> r.cap]

\* the rows of the rules of a request body, in its order
RuleRowsOf(pid, data) == [k \in 1..Len(data.rules) |-> RuleRow(pid, data.rules[k])]

\* select(ScoringProfile).where(ScoringProfile.profile_id == profile_id)
ProfileExists(pid) == \E k \in 1..Len(profiles) : profiles[k].profile_id = pid

\* the unique index on scoring_profiles.name would be violated by giving
\* the name to profile pid
NameTaken(name, pid) ==
    \E k \in 1..Len(profiles) :
        profiles[k].name = name /\ profiles[k].profile_id # pid

\* the answer to a request
Answer(op, pid, data, status) ==
    [op |-> op, id |-> pid, data |-> data, status |-> status]

\* the rows added by create_scoring_profile and import_scoring_profile: the
\* commit fails on a name that is taken and the except branch rolls back
InsertProfile(op, data) ==
    /\ nextId < MaxProfileIds
    /\ nextId' = nextId + 1
    /\ IF NameTaken(data.name, nextId + 1)
       THEN /\ UNCHANGED <<profiles, ruleRows>>
            /\ last' = Answer(op, nextId + 1, <<data>>, 500)
       ELSE /\ profiles' = Append(profiles, ProfileRow(nextId + 1, data))
            /\ ruleRows' = ruleRows \o RuleRowsOf(nextId + 1, data)
            /\ last' = Answer(op, nextId + 1, <<data>>, 200)
    /\ UNCHANGED exported
    /\ UNCHANGED outsideStore

\* POST /fantasy/profiles
CreateProfile == \E data \in ProfilePayloads : InsertProfile("create", data)

\* mutant of UpdateProfile: the old rules are not deleted, the new ones are
\* added to them
UpdateProfileAdding ==
    \E pid \in ProfileIds, data \in ProfilePayloads :
        /\ IF ~ProfileExists(pid) \/ NameTaken(data.name, pid)
           THEN /\ UNCHANGED <<profiles, ruleRows>>
                /\ last' = Answer("update", pid, <<data>>, 500)
           ELSE /\ profiles' = [k \in 1..Len(profiles) |->
                                   IF profiles[k].profile_id = pid
                                   THEN ProfileRow(pid, data)
                                   ELSE profiles[k]]
                /\ ruleRows' = ruleRows \o RuleRowsOf(pid, data)
                /\ last' = Answer("update", pid, <<data>>, 200)
        /\ UNCHANGED <<nextId, exported>>
        /\ UNCHANGED outsideStore

\* PUT /fantasy/profiles/{profile_id}: the 404 is raised inside the try and
\* caught by except Exception, which answers 500; so does a name that is
\* taken
UpdateProfile ==
    \E pid \in ProfileIds, data \in ProfilePayloads :
        /\ IF ~ProfileExists(pid) \/ NameTaken(data.name, pid)
           THEN /\ UNCHANGED <<profiles, ruleRows>>
                /\ last' = Answer("update", pid, <<data>>, 500)
           ELSE /\ profiles' = [k \in 1..Len(profiles) |->
                                   IF profiles[k].profile_id = pid
                                   THEN ProfileRow(pid, data)
                                   ELSE profiles[k]]
                /\ LET Others(row) == row.profile_id # pid
                   IN  ruleRows' = SelectSeq(ruleRows, Others)
                                       \o RuleRowsOf(pid, data)
                /\ last' = Answer("update", pid, <<data>>, 200)
        /\ UNCHANGED <<nextId, exported>>
        /\ UNCHANGED outsideStore

\* DELETE /fantasy/profiles/{profile_id}: the 404 is answered as 500, as in
\* the update
DeleteProfile ==
    \E pid \in ProfileIds :
        /\ IF ~ProfileExists(pid)
           THEN /\ UNCHANGED <<profiles, ruleRows>>
                /\ last' = Answer("delete", pid, <<>>, 500)
           ELSE /\ LET Others(row) == row.profile_id # pid
                   IN  /\ ruleRows' = SelectSeq(ruleRows, Others)
                       /\ profiles' = SelectSeq(profiles, Others)
                /\ last' = Answer("delete", pid, <<>>, 200)
        /\ UNCHANGED <<nextId, exported>>
        /\ UNCHANGED outsideStore

\* one rule of export_data
ExportRule(row) ==
    [stat_key |-> row.stat_key, multiplier |-> row.multiplier, per |-> row.per,
     bonus_min |-> row.bonus_min, bonus_max |-> row.bonus_max,
     bonus_points |-> row.bonus_points, cap |-> row.cap]

\* export_data of the stored profile pid
ExportData(pid) ==
    LET row == profiles[CHOOSE k \in 1..Len(profiles) : profiles[k].profile_id = pid]
        Own(r) == r.profile_id = pid
        own == SelectSeq(ruleRows, Own)
    IN  [name |-> row.name, description |-> row.description,
         is_public |-> row.is_public,
         rules |-> [k \in 1..Len(own) |-> ExportRule(own[k])]]

\* GET /fantasy/profiles/{profile_id}/export
ExportProfile ==
    \E pid \in ProfileIds :
        /\ IF ~ProfileExists(pid)
           THEN /\ UNCHANGED exported
                /\ last' = Answer("export", pid, <<>>, 404)
           ELSE /\ exported' = <<ExportData(pid)>>
                /\ last' = Answer("export", pid, <<>>, 200)
        /\ UNCHANGED <<profiles, ruleRows, nextId>>
        /\ UNCHANGED outsideStore

\* POST /fantasy/profiles/import, of a request body or of the data of the
\* last export
ImportProfile ==
    \/ \E data \in ProfilePayloads : InsertProfile("import", data)
    \/ /\ exported # <<>>
       /\ InsertProfile("import", exported[1])

\* the order of the keys of the dict get_default_scoring_profiles returns
CatalogNames == << "Standard", "PPR", "Half PPR" >>

\* description=f"Default {profile_name} scoring profile"
SeedDescription(n) ==
    IF n = "Standard" THEN "Default Standard scoring profile"
    ELSE IF n = "PPR" THEN "Default PPR scoring profile"
    ELSE "Default Half PPR scoring profile"

\* the row ScoringProfile(profile_id=..., name=profile_name, description=...,
\* is_public=True) of the seeding
SeedProfileRow(pid, n) ==
    [profile_id |-> pid, name |-> n, description |-> SeedDescription(n),
     is_public |-> TRUE]

\* the row ScoringRule(profile_id=..., **rule_data): a field the dict does
\* not hold is left to its column default
SeedRuleRow(pid, rule) ==
    [profile_id |-> pid, stat_key |-> rule["stat_key"],
     multiplier |-> Get(rule, "multiplier", 0), per |-> Get(rule, "per", None),
     bonus_min |-> Get(rule, "bonus_min", None),
     bonus_max |-> Get(rule, "bonus_max", None),
     bonus_points |-> Get(rule, "bonus_points", None),
     cap |-> Get(rule, "cap", None)]

\* the rule rows of the k-th profile of the catalog, given id pid
SeedRuleRowsOf(pid, k) ==
    LET rs == get_default_scoring_profiles[CatalogNames[k]]
    IN  [i \in 1..Len(rs) |-> SeedRuleRow(pid, rs[i])]

\* the rows the seeding adds, its ids drawn from first + 1 on
SeedRows(first) ==
    /\ nextId' = first + 3
    /\ profiles' = profiles \o [k \in 1..3 |->
                                  SeedProfileRow(first + k, CatalogNames[k])]
    /\ ruleRows' = ruleRows \o SeedRuleRowsOf(first + 1, 1)
                            \o SeedRuleRowsOf(first + 2, 2)
                            \o SeedRuleRowsOf(first + 3, 3)

\* mutant of Seed: the seeding is skipped only when a profile named
\* "Standard" exists
SeedUnlessStandard ==
    /\ IF \E k \in 1..Len(profiles) : profiles[k].name = "Standard"
       THEN UNCHANGED <<profiles, ruleRows, nextId>>
       ELSE /\ nextId <= MaxProfileIds
            /\ SeedRows(nextId)
    /\ last' = Answer("seed", 0, <<>>, 0)
    /\ UNCHANGED exported
    /\ UNCHANGED outsideStore

\* _seed_default_profiles of cli.py: nothing is done when any profile
\* exists; else one profile per name of the catalog with its rules, in one
\* commit
Seed ==
    /\ IF profiles # <<>>
       THEN UNCHANGED <<profiles, ruleRows, nextId>>
       ELSE /\ nextId <= MaxProfileIds
            /\ SeedRows(nextId)
    /\ last' = Answer("seed", 0, <<>>, 0)
    /\ UNCHANGED exported
    /\ UNCHANGED outsideStore

InitStore ==
    /\ EmptyStore
    /\ NoDefaults
    /\ NoStats
    /\ NoCall
    /\ NoHistory
    /\ NoOtherCall
    /\ NoValidation

NextStore ==
    \/ CreateProfile
    \/ UpdateProfile
    \/ DeleteProfile
    \/ ExportProfile
    \/ ImportProfile
    \/ Seed

SpecStore == InitStore /\ [][NextStore]_vars

(***************************************************************************)
(* C19, C20: the rules the store holds                                     *)
(***************************************************************************)
\* the invariants of a stored rule: per, when present, is > 0; bonus_max >
\* bonus_min when both are present
RuleInvariants(row) ==
    /\ row.per # None => row.per > 0
    /\ (row.bonus_min # None /\ row.bonus_max # None)
           => row.bonus_max > row.bonus_min

\* C19: validation is enforced at the boundary: after any sequence of
\* profile create, update and import requests every rule held in the rule
\* store satisfies the rule invariants, and a request containing a rule that
\* violates them is rejected and stores nothing.
C19_StoredRulesValid ==
    /\ \A k \in 1..Len(ruleRows) : RuleInvariants(ruleRows[k])
    /\ ( /\ last.op \in {"create", "update", "import"}
         /\ \E k \in 1..Len(last.data[1].rules) :
                ~RuleInvariants(last.data[1].rules[k]) )
           => last.status # 200

\* the stored profile pid is the profile of data: same name, description
\* and visibility, the same rules in the same order with the same seven
\* field values
StoredAs(pid, data) ==
    /\ ProfileExists(pid)
    /\ ExportData(pid) = data

\* C20: export/import round trip: importing the data of an export succeeds
\* and yields a stored profile with the same name, description and
\* visibility and the same rules in the same order, also when the import
\* goes into the store the profile was exported from.
C20_ExportImportRoundTrip ==
    (last.op = "import" /\ last.data = exported)
        => (last.status = 200 /\ StoredAs(last.id, exported[1]))

(***************************************************************************)
(* Callers of get_default_scoring_profiles                                 *)
(***************************************************************************)
\* the number of changes callers make to a value they were returned
MaxChanges == 2

\* the changes a caller makes to the value it holds: a multiplier set to 0,
\* the last rule of a list popped, a name deleted
ChangedDefaults(v) ==
    { [v EXCEPT ![n] = [@ EXCEPT ![i] = [@ EXCEPT !["multiplier"] = 0]]] :
        n \in DOMAIN v, i \in 1..9 }
    \cup { [v EXCEPT ![n] = SubSeq(@, 1, 8)] : n \in DOMAIN v }
    \cup { [m \in DOMAIN v \ {n} |-> v[m]] : n \in DOMAIN v }

\* mutant of GetDefaults: the dict is built once at module level and every
\* call returns that one object, with the changes callers made to it
GetDefaultsShared ==
    /\ defaults' = [pc |-> "returned",
                    value |-> IF defaults.pc = "none"
                              THEN get_default_scoring_profiles
                              ELSE defaults.value,
                    changes |-> defaults.changes]
    /\ UNCHANGED <<callVars, history, other, validatorVars, storeVars, statVars>>

\* a call of get_default_scoring_profiles: the caller holds the new dict
GetDefaults ==
    /\ defaults' = [pc |-> "returned", value |-> get_default_scoring_profiles,
                    changes |-> defaults.changes]
    /\ UNCHANGED <<callVars, history, other, validatorVars, storeVars, statVars>>

\* the caller changes the value it holds
ChangeDefaults ==
    /\ defaults.pc \in {"returned", "changed"}
    /\ defaults.changes < MaxChanges
    /\ \E v \in ChangedDefaults(defaults.value) :
           defaults' = [pc |-> "changed", value |-> v,
                        changes |-> defaults.changes + 1]
    /\ UNCHANGED <<callVars, history, other, validatorVars, storeVars, statVars>>

InitCatalog ==
    /\ NoDefaults
    /\ NoCall
    /\ NoHistory
    /\ NoOtherCall
    /\ NoValidation
    /\ EmptyStore
    /\ NoStats

NextCatalog == GetDefaults \/ ChangeDefaults

SpecCatalog == InitCatalog /\ [][NextCatalog]_vars

(***************************************************************************)
(* C21, C22: the catalog                                                   *)
(***************************************************************************)
\* the stat keys of the nine rules, in order
CatalogKeys ==
    << "passing_yards", "passing_touchdowns", "passing_interceptions",
       "rushing_yards", "rushing_touchdowns", "receiving_yards",
       "receiving_touchdowns", "receptions", "fumbles_lost" >>

\* the receptions multiplier of each profile
ReceptionsMultiplier(n) == IF n = "PPR" THEN 1000 ELSE 500

\* rule r holds the same per as rule q, or both hold none
SamePer(r, q) ==
    IF "per" \in DOMAIN r
    THEN (IF "per" \in DOMAIN q THEN r["per"] = q["per"] ELSE FALSE)
    ELSE "per" \notin DOMAIN q

\* list rs holds the nine rules of list qs in their order, but for the
\* receptions multiplier, which is m
SameNineRules(rs, qs, m) ==
    IF Len(rs) # 9 \/ Len(qs) # 9 THEN FALSE
    ELSE \A i \in 1..9 :
            /\ rs[i]["stat_key"] = CatalogKeys[i]
            /\ qs[i]["stat_key"] = CatalogKeys[i]
            /\ SamePer(rs[i], qs[i])
            /\ IF CatalogKeys[i] = "receptions"
               THEN rs[i]["multiplier"] = m
               ELSE rs[i]["multiplier"] = qs[i]["multiplier"]

\* C21: get_default_scoring_profiles returns exactly the three profiles
\* "Standard", "PPR" and "Half PPR", each with the same nine rules in the
\* same order except for the receptions multiplier (0.5, 1.0, 0.5); every
\* call returns this, whatever callers did to values returned before.
C21_CatalogThreeProfiles ==
    defaults.pc = "returned" =>
        IF DOMAIN defaults.value # {"Standard", "PPR", "Half PPR"} THEN FALSE
        ELSE \A n \in DOMAIN defaults.value :
                SameNineRules(defaults.value[n], defaults.value["Standard"],
                              ReceptionsMultiplier(n))

\* C21 witness: a call has returned after callers changed the values two
\* earlier calls returned
C21_Witness ==
    /\ defaults.pc = "returned"
    /\ defaults.changes >= 2
    /\ defaults.value["PPR"][8]["multiplier"] = 1000

\* C22: every rule of every default profile carries a stat_key, a numeric
\* multiplier and a numeric per field, and its per is greater than 0.
C22_CatalogRuleStructure ==
    defaults.pc = "returned" =>
        \A n \in DOMAIN defaults.value :
            \A i \in 1..Len(defaults.value[n]) :
                LET rule == defaults.value[n][i]
                IN  /\ "stat_key" \in DOMAIN rule
                    /\ HasNumber(rule, "multiplier")
                    /\ IF HasNumber(rule, "per") THEN rule["per"] > 0 ELSE FALSE

(***************************************************************************)
(* C25: the stat keys ingestion writes                                     *)
(***************************************************************************)
\* stat_mappings of ingest_weekly_stats: nfl_data_py column -> stat key
stat_mappings ==
    [c \in {"passing_yards", "passing_tds", "interceptions", "rushing_yards",
            "rushing_tds", "receptions", "receiving_yards", "receiving_tds",
            "targets", "carries", "attempts", "completions", "sacks",
            "fumbles_lost", "rushing_fumbles_lost", "receiving_fumbles_lost",
            "sack_fumbles_lost"} |->
        IF c = "passing_tds" THEN "passing_touchdowns"
        ELSE IF c = "rushing_tds" THEN "rushing_touchdowns"
        ELSE IF c = "receiving_tds" THEN "receiving_touchdowns"
        ELSE IF c = "attempts" THEN "passing_attempts"
        ELSE IF c = "completions" THEN "passing_completions"
        ELSE c]

\* the stat keys ingestion can write
IngestedStatKeys == { stat_mappings[c] : c \in DOMAIN stat_mappings }

\* C25: every stat_key read by a rule of a default profile is one of the
\* stat keys weekly-stat ingestion writes to the store, so each of the nine
\* default rules can contribute for an ingested player-week.
C25_DefaultKeysAreIngested ==
    defaults.pc = "returned" =>
        \A n \in DOMAIN defaults.value :
            \A i \in 1..Len(defaults.value[n]) :
                defaults.value[n][i]["stat_key"] \in IngestedStatKeys

(***************************************************************************)
(* compute_points, on rule records                                         *)
(*                                                                         *)
(* A ScoringRule record has all seven attributes, None where unset; it is  *)
(* the dict holding the same seven values.  The second frame runs          *)
(* compute_points next to compute_points_from_dict on the same arguments.  *)
(***************************************************************************)
SevenFields ==
    {"stat_key", "multiplier", "per", "bonus_min", "bonus_max", "bonus_points",
     "cap"}

\* if rule.per is not None and rule.per > 0: floor(val / rule.per) else val
EntityUnits(v, rule) ==
    IF (IF rule["per"] # None THEN rule["per"] > 0 ELSE FALSE)
    THEN FloorDiv(v, rule["per"])
    ELSE v

\* base = units * float(rule.multiplier or 0)
EntityBase(u, rule) ==
    FMul(u, IF Truthy(rule["multiplier"]) THEN rule["multiplier"] ELSE 0)

\* the three nested ifs guarding the bonus assignment of compute_points
EntityBonusApplies(v, rule) ==
    IF rule["bonus_min"] # None
    THEN IF v >= rule["bonus_min"]
         THEN IF rule["bonus_max"] = None THEN TRUE ELSE v <= rule["bonus_max"]
         ELSE FALSE
    ELSE FALSE

\* bonus = 0.0, or float(rule.bonus_points or 0) inside the ifs
EntityBonus(v, rule) ==
    IF EntityBonusApplies(v, rule)
    THEN (IF Truthy(rule["bonus_points"]) THEN rule["bonus_points"] * Milli ELSE 0)
    ELSE 0

\* subtotal = base + bonus; if rule.cap is not None: min(subtotal, rule.cap)
EntitySubtotal(st, rule) ==
    LET v == StatValue(st, rule)
        s == FAdd(EntityBase(EntityUnits(v, rule), rule), EntityBonus(v, rule))
    IN  IF rule["cap"] # None THEN Min(s, rule["cap"] * Milli) ELSE s

\* the single rules both paths are run on: every field a number or None
FullFieldRules == { r \in FieldRules : DOMAIN r = SevenFields }

\* the rules the lists of several rules are drawn from
FullPoolRules == { r \in PoolRules : DOMAIN r = SevenFields }

InitPaths ==
    /\ \/ stats \in FieldStats /\ rules \in { <<r>> : r \in FullFieldRules }
       \/ stats \in PoolStats /\ rules \in SeqsUpTo(FullPoolRules, MaxRules)
    /\ Entry
    /\ NoHistory
    /\ other = [stats |-> stats, rules |-> rules, pc |-> "loop", idx |-> 1,
                total |-> 0, result |-> None]
    /\ NoValidation
    /\ EmptyStore
    /\ NoDefaults
    /\ NoStats

\* one iteration of the loop of compute_points
EntityLoopBody ==
    /\ other.pc = "loop"
    /\ other.idx <= Len(other.rules)
    /\ LET s == EntitySubtotal(other.stats, other.rules[other.idx])
       IN  other' = [other EXCEPT !.total = Accumulate(@, s), !.idx = @ + 1]
    /\ UNCHANGED <<callVars, history, validatorVars, storeVars, catalogVars,
                   statVars>>

\* return round(total, 2) of compute_points
EntityReturn ==
    /\ other.pc = "loop"
    /\ other.idx > Len(other.rules)
    /\ other' = [other EXCEPT !.pc = "done", !.result = FinalScore(other.total)]
    /\ UNCHANGED <<callVars, history, validatorVars, storeVars, catalogVars,
                   statVars>>

NextPaths ==
    \/ LoopBody \/ RaiseTypeError \/ Return
    \/ EntityLoopBody \/ EntityReturn

SpecPaths == InitPaths /\ [][NextPaths]_vars

\* C24: the two engine code paths agree: on the same stats and the same
\* seven field values of every rule, null fields included, compute_points
\* and compute_points_from_dict return the same score, and one fails only
\* if the other fails.
C24_TwoPathsAgree ==
    (Ended /\ other.pc \in {"done", "raised"}) =>
        (pc = other.pc /\ result = other.result)

(***************************************************************************)
(* C26: seeding                                                            *)
(***************************************************************************)
\* the rule rows stored for profile pid, in row order
RulesOf(pid) == SelectSeq(ruleRows, LAMBDA row : row.profile_id = pid)

\* the stored rules of profile pid are the rules of the catalog under name
\* n: as many, in its order, each with its stat_key, multiplier and per and
\* nothing else set
HoldsCatalogRules(pid, n) ==
    LET rows == RulesOf(pid)
        rs == get_default_scoring_profiles[n]
    IN  IF Len(rows) # Len(rs) THEN FALSE
        ELSE \A i \in 1..Len(rs) :
                /\ rows[i].stat_key = rs[i]["stat_key"]
                /\ rows[i].multiplier = rs[i]["multiplier"]
                /\ rows[i].per = Get(rs[i], "per", None)
                /\ rows[i].bonus_min = None
                /\ rows[i].bonus_max = None
                /\ rows[i].bonus_points = None
                /\ rows[i].cap = None

\* the store holds exactly one public profile per catalog name, each with
\* the catalog's rules, and no other profile or rule
SeededCatalog ==
    /\ Len(profiles) = 3
    /\ \A n \in DOMAIN get_default_scoring_profiles :
           \E k \in 1..3 :
               /\ profiles[k].name = n
               /\ profiles[k].is_public
               /\ HoldsCatalogRules(profiles[k].profile_id, n)
    /\ \A j, k \in 1..3 :
           profiles[j].profile_id = profiles[k].profile_id => j = k
    /\ Len(ruleRows) = 27

\* C26: seeding is idempotent: seeding an empty store creates exactly one
\* public profile per catalog name, each with the catalog's rules; seeding a
\* store that already holds a profile changes no profile and no rule.  So
\* seed runs on an empty store leave exactly the three default profiles,
\* their rules not duplicated.
C26_SeedIdempotent ==
    [][ last'.op = "seed" =>
            IF profiles = <<>> THEN SeededCatalog'
            ELSE UNCHANGED <<profiles, ruleRows>> ]_vars

\* C26 witness: a seed run has left the three default profiles
C26_Witness ==
    /\ last.op = "seed"
    /\ SeededCatalog
    /\ nextId > 3

(***************************************************************************)
(* C27, C28: requests on the stored profiles                               *)
(***************************************************************************)
\* C27: updating or deleting a scoring profile whose profile_id is not in
\* the store is answered with 404 "Scoring profile not found", not with a
\* 500, and the store is left as it was.
C27_MissingProfileIs404 ==
    ( /\ last.op \in {"update", "delete"}
      /\ last.status # 200
      /\ ~ProfileExists(last.id) ) => last.status = 404

\* the rules of a request body as rows of profile pid
SubmittedRows(pid, data) ==
    [k \in 1..Len(data.rules) |->
        [profile_id |-> pid,
         stat_key |-> data.rules[k].stat_key,
         multiplier |-> data.rules[k].multiplier,
         per |-> data.rules[k].per,
         bonus_min |-> data.rules[k].bonus_min,
         bonus_max |-> data.rules[k].bonus_max,
         bonus_points |-> data.rules[k].bonus_points,
         cap |-> data.rules[k].cap]]

\* no orphan rules: every stored rule belongs to a stored profile
NoOrphanRules == \A k \in 1..Len(ruleRows) : ProfileExists(ruleRows[k].profile_id)

\* what a step does to the rules of profile pid: a successful create,
\* update or import of pid leaves exactly the rules submitted, a successful
\* delete of pid leaves none, and every other step, a failed request
\* included, leaves them as they were
RulesStep(pid) ==
    IF last'.op \in {"create", "update", "import"} /\ last'.status = 200
           /\ last'.id = pid
    THEN RulesOf(pid)' = SubmittedRows(pid, last'.data[1])
    ELSE IF last'.op = "delete" /\ last'.status = 200 /\ last'.id = pid
    THEN RulesOf(pid)' = <<>>
    ELSE IF last'.op = "seed"
    THEN TRUE
    ELSE RulesOf(pid)' = RulesOf(pid)

\* C28: after any sequence of successful or failed create, update, delete
\* and import requests every stored rule belongs to a stored profile, a
\* deleted profile leaves no rule behind, and the rules of a stored profile
\* are exactly those submitted in the most recent successful create, update
\* or import of it: an update replaces the old rules.
C28_RulesFollowRequests ==
    /\ []NoOrphanRules
    /\ [][ \A pid \in 1..(nextId' + 1) : RulesStep(pid) ]_vars

\* C28 witness: an update has replaced the two rules of a profile by two
\* other rules while another profile kept its own
C28_Witness ==
    /\ last.op = "update"
    /\ last.status = 200
    /\ Len(profiles) = 2
    /\ Len(ruleRows) = 4
    /\ RulesOf(last.id) = SubmittedRows(last.id, last.data[1])
    /\ last.data[1].name = "Broken"
    /\ last.id = 1

(***************************************************************************)
(* The weekly statistics: ingest_weekly_stats fills player_week_stats from *)
(* the weekly data of nfl_data_py, the points endpoints read it.  The      *)
(* players table holds every player of the weekly data                     *)
(* (seed_players_and_ids builds it from the same data).                    *)
(***************************************************************************)
\* what ingestion and the points endpoints leave alone
outsideStats == <<callVars, history, other, validatorVars, catalogVars>>

\* the rows of the players table
Players ==
    << [player_id |-> "P1", position |-> "QB", team |-> "KC"],
       [player_id |-> "P2", position |-> "RB", team |-> "KC"],
       [player_id |-> "P3", position |-> "QB", team |-> "SF"] >>

\* stat_mappings.items(): the columns in the order the dict lists them
StatColumns ==
    << "passing_yards", "passing_tds", "interceptions", "rushing_yards",
       "rushing_tds", "receptions", "receiving_yards", "receiving_tds",
       "targets", "carries", "attempts", "completions", "sacks",
       "fumbles_lost", "rushing_fumbles_lost", "receiving_fumbles_lost",
       "sack_fumbles_lost" >>

\* the seasons of the weekly data
Seasons == {2022, 2023}

\* df.columns of import_weekly_data([season]): the 2022 data has no
\* interceptions column
DataColumns(season) ==
    IF season = 2023
    THEN {"passing_yards", "passing_tds", "interceptions", "rushing_yards",
          "rushing_tds"}
    ELSE {"passing_yards", "rushing_yards", "rushing_tds"}

\* a row of the 2023 data; None is NaN
Row2023(p, w, py, ptd, int, ry, rtd) ==
    [player_id |-> p, season |-> 2023, week |-> w,
     values |-> [c \in DataColumns(2023) |->
                    IF c = "passing_yards" THEN py
                    ELSE IF c = "passing_tds" THEN ptd
                    ELSE IF c = "interceptions" THEN int
                    ELSE IF c = "rushing_yards" THEN ry
                    ELSE rtd]]

\* a row of the 2022 data
Row2022(p, w, py, ry, rtd) ==
    [player_id |-> p, season |-> 2022, week |-> w,
     values |-> [c \in DataColumns(2022) |->
                    IF c = "passing_yards" THEN py
                    ELSE IF c = "rushing_yards" THEN ry
                    ELSE rtd]]

\* import_weekly_data([season]): one row per player and week
import_weekly_data(season) ==
    IF season = 2023
    THEN << Row2023("P1", 1, 300 * Milli, 0, None, 0 - 3 * Milli, 0),
            Row2023("P2", 1, 0, 0, 0, 20 * Milli, 3 * Milli),
            Row2023("P3", 1, 0, None, 0, 0, None),
            Row2023("P1", 2, 150 * Milli, Milli, 2 * Milli, 0, 0),
            Row2023("P3", 2, 200 * Milli, 2 * Milli, Milli, 0, 0) >>
    ELSE << Row2022("P1", 1, 250 * Milli, 0, 0),
            Row2022("P2", 1, None, 90 * Milli, Milli) >>

\* mutant of StatExists: the look-up matches the stat key against the
\* column name with a prefix no key has, and finds no record
StatNeverExists(rows, p, s, w, k) ==
    \E i \in 1..Len(rows) :
        /\ rows[i].player_id = p
        /\ rows[i].season = s
        /\ rows[i].week = w
        /\ rows[i].stat_key = "nfl_" \o k

\* select(PlayerWeekStat).where(player_id ==, season ==, week ==, stat_key ==)
StatExists(rows, p, s, w, k) ==
    \E i \in 1..Len(rows) :
        /\ rows[i].player_id = p
        /\ rows[i].season = s
        /\ rows[i].week = w
        /\ rows[i].stat_key = k

\* PlayerWeekStat(player_id=, season=, week=, stat_key=, stat_value=)
StatRow(p, s, w, k, v) ==
    [player_id |-> p, season |-> s, week |-> w, stat_key |-> k,
     stat_value |-> v]

\* for nfl_col, stat_key in stat_mappings.items(): the columns from the
\* i-th on of one row of the data
RECURSIVE IngestColumns(_, _, _, _)
IngestColumns(rows, src, season, i) ==
    IF i > Len(StatColumns) THEN rows
    ELSE LET c == StatColumns[i]
             v == IF c \in DataColumns(season) THEN src.values[c] ELSE None
         IN  IF c \notin DataColumns(season)
             THEN IngestColumns(rows, src, season, i + 1)
             ELSE IF v = None
             THEN IngestColumns(rows, src, season, i + 1)
             ELSE IF v = 0
             THEN IngestColumns(rows, src, season, i + 1)
             ELSE IF StatExists(rows, src.player_id, src.season, src.week,
                                stat_mappings[c])
             THEN IngestColumns(rows, src, season, i + 1)
             ELSE IngestColumns(
                      Append(rows, StatRow(src.player_id, src.season, src.week,
                                           stat_mappings[c], v)),
                      src, season, i + 1)

\* for _, row in df.iterrows(): the rows from the j-th on
RECURSIVE IngestRows(_, _, _)
IngestRows(rows, season, j) ==
    IF j > Len(import_weekly_data(season)) THEN rows
    ELSE IngestRows(IngestColumns(rows, import_weekly_data(season)[j],
                                  season, 1),
                    season, j + 1)

\* for season in seasons: the seasons from the k-th on, each committed
RECURSIVE IngestSeasons(_, _, _)
IngestSeasons(rows, seasons, k) ==
    IF k > Len(seasons) THEN rows
    ELSE IngestSeasons(IngestRows(rows, seasons[k], 1), seasons, k + 1)

\* results[season] = count
RECURSIVE IngestCounts(_, _, _)
IngestCounts(rows, seasons, k) ==
    IF k > Len(seasons) THEN <<>>
    ELSE LET after == IngestRows(rows, seasons[k], 1)
         IN  <<Len(after) - Len(rows)>> \o IngestCounts(after, seasons, k + 1)

\* the lists of seasons ingestion is called with
SeasonLists == { <<2023>>, <<2022>>, <<2023, 2022>> }

\* ingest_weekly_stats(seasons)
Ingest == \E seasons \in SeasonLists :
    /\ statRows' = IngestSeasons(statRows, seasons, 1)
    /\ last' = Answer("ingest", 0,
                      <<[seasons |-> seasons,
                         results |-> IngestCounts(statRows, seasons, 1)]>>, 0)
    /\ UNCHANGED <<profiles, ruleRows, nextId, exported>>
    /\ UNCHANGED outsideStats

\* the request body of a profile created instead of the default ones: its
\* second rule has a bonus range and no bonus_points
LeaguePayloads ==
    { [name |-> "League", description |-> NoDescription, is_public |-> TRUE,
       rules |-> << RuleData("rushing_touchdowns", 6 * Milli, None, Milli,
                             5 * Milli, 2 * Milli, None),
                    RuleData("passing_yards", 40, None, 200 * Milli,
                             400 * Milli, None, None) >>] }

\* POST /fantasy/profiles with one of these bodies
CreateLeagueProfile == \E data \in LeaguePayloads : InsertProfile("create", data)

\* the rule dictionaries built from the ScoringRule rows of a profile
RulesDict(pid) ==
    LET rows == SelectSeq(ruleRows, LAMBDA row : row.profile_id = pid)
    IN  [k \in 1..Len(rows) |-> [f \in SevenFields |-> rows[k][f]]]

\* {row.stat_key: row.stat_value for row in result.all()}
StatsDict(rows) ==
    [k \in { rows[i].stat_key : i \in 1..Len(rows) } |->
        LET at == { i \in 1..Len(rows) : rows[i].stat_key = k }
        IN  rows[CHOOSE i \in at : \A j \in at : j <= i].stat_value]

\* the stat rows of a player in a week of a season
WeekStatRows(p, s, w) ==
    SelectSeq(statRows,
              LAMBDA r : r.player_id = p /\ r.season = s /\ r.week = w)

\* the stat rows of a player in a season
SeasonStatRows(p, s) ==
    SelectSeq(statRows, LAMBDA r : r.player_id = p /\ r.season = s)

\* func.sum(PlayerWeekStat.stat_value) over rows
RECURSIVE SumValues(_)
SumValues(rows) ==
    IF rows = <<>> THEN 0
    ELSE FAdd(SumValues(SubSeq(rows, 1, Len(rows) - 1)),
              rows[Len(rows)].stat_value)

\* select(stat_key, func.sum(stat_value)).group_by(stat_key) as a dict
SeasonTotals(rows) ==
    [k \in { rows[i].stat_key : i \in 1..Len(rows) } |->
        SumValues(SelectSeq(rows, LAMBDA r : r.stat_key = k))]

\* the points requests made
PointsPlayers == {"P1", "P2", "P3"}
Weeks == {1, 2}

\* GET /fantasy/points: a TypeError of the engine is not caught and is
\* answered 500
CalculatePoints ==
    \E p \in PointsPlayers, s \in Seasons, w \in Weeks, pid \in ProfileIds :
        LET sd == StatsDict(WeekStatRows(p, s, w))
            call == compute_points_from_dict(sd, RulesDict(pid))
            q == [player_id |-> p, season |-> s, week |-> w]
        IN  /\ IF DOMAIN sd = {}
               THEN last' = Answer("points", pid,
                                   <<q, [points |-> None]>>, 404)
               ELSE IF ~ProfileExists(pid)
               THEN last' = Answer("points", pid,
                                   <<q, [points |-> None]>>, 404)
               ELSE IF call.pc = "raised"
               THEN last' = Answer("points", pid,
                                   <<q, [points |-> None]>>, 500)
               ELSE last' = Answer("points", pid,
                                   <<q, [points |-> call.result]>>, 200)
            /\ UNCHANGED <<profiles, ruleRows, nextId, exported, statRows>>
            /\ UNCHANGED outsideStats

\* the leaderboard requests made: the week or the season, no filter or one,
\* the first rows or the rows behind the first
LeaderboardWeeks == {1, None}
Limits == {1, 2}
Offsets == {0, 1}

\* a filter that is not given
NoFilter == "None"

\* the position and team filters of the requests
Filters ==
    { [position |-> NoFilter, team |-> NoFilter],
      [position |-> "QB", team |-> NoFilter],
      [position |-> NoFilter, team |-> "KC"] }

\* Player joined to PlayerWeekStat on the season (and the week, if given)
PeriodStatRows(p, s, w) ==
    IF w = None THEN SeasonStatRows(p, s) ELSE WeekStatRows(p, s, w)

\* the players of the grouped query: joined to a stat row of the period,
\* of the position and the team asked for
JoinedPlayers(s, w, pos, team) ==
    SelectSeq(Players,
              LAMBDA pl : /\ PeriodStatRows(pl.player_id, s, w) # <<>>
                          /\ (pos = NoFilter \/ pl.position = pos)
                          /\ (team = NoFilter \/ pl.team = team))

\* order_by(func.sum(PlayerWeekStat.stat_value).desc()): the orders the
\* database may return the groups in
TotalValueOrders(joined, s, w) ==
    { f \in Orders(Len(joined)) :
        \A i \in 1..(Len(joined) - 1) :
            SumValues(PeriodStatRows(joined[f[i]].player_id, s, w))
                >= SumValues(PeriodStatRows(joined[f[i + 1]].player_id, s, w)) }

\* .limit(limit).offset(offset) of the ordered groups
Page(joined, f, limit, offset) ==
    [i \in 1..(IF Len(joined) - offset < 0 THEN 0
               ELSE Min(limit, Len(joined) - offset)) |-> joined[f[offset + i]]]

\* stats_dict of a player of the page
DetailStats(p, s, w) ==
    IF w = None THEN SeasonTotals(SeasonStatRows(p, s))
    ELSE StatsDict(WeekStatRows(p, s, w))

\* list.sort(key=fantasy_points, reverse=True): x put into a sorted list,
\* behind the entries of the same points
RECURSIVE InsertByPoints(_, _)
InsertByPoints(sorted, x) ==
    IF sorted = <<>> THEN <<x>>
    ELSE IF sorted[1].fantasy_points >= x.fantasy_points
    THEN <<sorted[1]>> \o InsertByPoints(Tail(sorted), x)
    ELSE <<x>> \o sorted

\* the list sorted, entry by entry
RECURSIVE SortByPoints(_)
SortByPoints(list) ==
    IF list = <<>> THEN <<>>
    ELSE InsertByPoints(SortByPoints(SubSeq(list, 1, Len(list) - 1)),
                        list[Len(list)])

\* the answer of get_leaderboard for one order of the groups
LeaderboardAnswer(s, w, pos, team, pid, limit, offset, f) ==
    LET joined == JoinedPlayers(s, w, pos, team)
        page == Page(joined, f, limit, offset)
        calls == [i \in 1..Len(page) |->
                     compute_points_from_dict(
                         DetailStats(page[i].player_id, s, w), RulesDict(pid))]
        q == [season |-> s, week |-> w, position |-> pos, team |-> team,
              limit |-> limit, offset |-> offset]
    IN  IF \E i \in 1..Len(page) : calls[i].pc = "raised"
        THEN Answer("leaderboard", pid, <<q, <<>> >>, 500)
        ELSE Answer("leaderboard", pid,
                    <<q, SortByPoints(
                             [i \in 1..Len(page) |->
                                 [player_id |-> page[i].player_id,
                                  fantasy_points |-> calls[i].result]])>>,
                    200)

\* GET /fantasy/points/leaderboard: the 404 of an unknown profile and a
\* TypeError of the engine are raised inside the try and answered 500
Leaderboard ==
    \E s \in Seasons, w \in LeaderboardWeeks, by \in Filters,
       pid \in ProfileIds, limit \in Limits, offset \in Offsets :
        /\ IF ~ProfileExists(pid)
           THEN last' = Answer("leaderboard", pid,
                               <<[season |-> s, week |-> w,
                                  position |-> by.position, team |-> by.team,
                                  limit |-> limit, offset |-> offset],
                                 <<>> >>, 500)
           ELSE \E f \in TotalValueOrders(
                             JoinedPlayers(s, w, by.position, by.team), s, w) :
                    last' = LeaderboardAnswer(s, w, by.position, by.team, pid,
                                              limit, offset, f)
        /\ UNCHANGED <<profiles, ruleRows, nextId, exported, statRows>>
        /\ UNCHANGED outsideStats

InitStats ==
    /\ EmptyStore
    /\ NoDefaults
    /\ NoStats
    /\ NoCall
    /\ NoHistory
    /\ NoOtherCall
    /\ NoValidation

NextStats ==
    \/ Seed
    \/ CreateLeagueProfile
    \/ Ingest
    \/ CalculatePoints
    \/ Leaderboard

SpecStats == InitStats /\ [][NextStats]_vars

(***************************************************************************)
(* C30: ingestion of the weekly data                                       *)
(***************************************************************************)
\* the stored records of a season
SeasonRows(rows, s) == SelectSeq(rows, LAMBDA r : r.season = s)

\* the seasons that have been ingested: each season's data has a value to
\* store
Ingested(s) == SeasonRows(statRows, s) # <<>>

\* the StatMap of a row of the weekly data: its columns under their stat
\* keys, zeros and missing values as they are
SourceStats(src) ==
    [k \in { stat_mappings[c] : c \in DOMAIN src.values } |->
        src.values[CHOOSE c \in DOMAIN src.values : stat_mappings[c] = k]]

\* the rule lists a player-week is scored under: those of the stored
\* profiles and those of the catalog
ScoredRules ==
    { RulesDict(pid) : pid \in 1..nextId }
        \cup { get_default_scoring_profiles[n] :
                 n \in DOMAIN get_default_scoring_profiles }

\* no two records of the same (player_id, season, week, stat_key)
OneRecordPerKey ==
    \A i, j \in 1..Len(statRows) :
        ( /\ statRows[i].player_id = statRows[j].player_id
          /\ statRows[i].season = statRows[j].season
          /\ statRows[i].week = statRows[j].week
          /\ statRows[i].stat_key = statRows[j].stat_key ) => i = j

\* no record of a zero or a missing value
NoZeroRecords ==
    \A i \in 1..Len(statRows) :
        statRows[i].stat_value # None /\ statRows[i].stat_value # 0

\* the stored records of an ingested player-week score as its source row
StoredScoresAsSource ==
    \A s \in Seasons :
        Ingested(s) =>
            \A j \in 1..Len(import_weekly_data(s)) :
                \A rs \in ScoredRules :
                    LET src == import_weekly_data(s)[j]
                    IN  compute_points_from_dict(
                            StatsDict(WeekStatRows(src.player_id, s, src.week)),
                            rs)
                        = compute_points_from_dict(SourceStats(src), rs)

\* an ingestion run leaves the records of the ingested seasons as they are
\* and removes no record
IngestKeepsIngested ==
    last'.op = "ingest" =>
        /\ Len(statRows') >= Len(statRows)
        /\ SubSeq(statRows', 1, Len(statRows)) = statRows
        /\ \A s \in Seasons :
               Ingested(s) => SeasonRows(statRows', s) = SeasonRows(statRows, s)

\* C30: ingestion is idempotent: the store never holds two records of one
\* (player_id, season, week, stat_key); a run over seasons already ingested
\* adds no record and changes no stored value; zero and missing values are
\* not stored; and the stored records of a player-week give the same engine
\* score as its source row.
C30_IngestionIdempotent ==
    /\ [](OneRecordPerKey /\ NoZeroRecords /\ StoredScoresAsSource)
    /\ [][IngestKeepsIngested]_vars

\* both seasons are stored, with the negative value and without the zeros,
\* and the last run, over both, has added nothing
C30_Witness ==
    /\ last.op = "ingest"
    /\ last.data[1].seasons = <<2023, 2022>>
    /\ last.data[1].results = <<0, 0>>
    /\ Len(statRows) = 13
    /\ \E i \in 1..Len(statRows) : statRows[i].stat_value < 0
    /\ StatsDict(WeekStatRows("P3", 2023, 1)) = <<>>
    /\ nextId > 0

(***************************************************************************)
(* C23: the single-player points endpoint                                  *)
(***************************************************************************)
\* the player-week asked for in the last points request
Asked == last.data[1]

\* the store holds no stat record of the player-week asked for
NoStatRecord ==
    \A i \in 1..Len(statRows) :
        ~( /\ statRows[i].player_id = Asked.player_id
           /\ statRows[i].season = Asked.season
           /\ statRows[i].week = Asked.week )

\* the StatMap of the player-week asked for
AskedStats ==
    [k \in { statRows[i].stat_key : i \in { j \in 1..Len(statRows) :
                 /\ statRows[j].player_id = Asked.player_id
                 /\ statRows[j].season = Asked.season
                 /\ statRows[j].week = Asked.week } } |->
        LET i == CHOOSE j \in 1..Len(statRows) :
                     /\ statRows[j].player_id = Asked.player_id
                     /\ statRows[j].season = Asked.season
                     /\ statRows[j].week = Asked.week
                     /\ statRows[j].stat_key = k
        IN  statRows[i].stat_value]

\* the points request is answered 200 with the given points
AnsweredPoints(points) ==
    IF last.status = 200 THEN last.data[2].points = points ELSE FALSE

\* C23: a points request is answered 404, with no score, when the store has
\* no stat record of the player-week or the profile does not exist;
\* otherwise it is answered with the engine's score of the player-week's
\* StatMap under the stored rules of the profile.
C23_PointsEndpoint ==
    last.op = "points" =>
        IF NoStatRecord \/ ~ProfileExists(last.id)
        THEN last.status = 404 /\ last.data[2].points = None
        ELSE AnsweredPoints(
                 Round2(SpecifiedTotal(AskedStats, RulesDict(last.id),
                                       Len(RulesDict(last.id)))))

(***************************************************************************)
(* C29: the leaderboard                                                    *)
(***************************************************************************)
\* the last leaderboard request and the list it was answered with
Request == last.data[1]
Listed == last.data[2]

\* the stat records of a player in the period asked for
RequestedRows(p) ==
    SelectSeq(statRows,
              LAMBDA r : /\ r.player_id = p
                         /\ r.season = Request.season
                         /\ (Request.week # None => r.week = Request.week))

\* the players matching the filters of the request: those of the position
\* and the team with a stat record in the period
Matching ==
    { Players[i].player_id : i \in { j \in 1..Len(Players) :
        /\ RequestedRows(Players[j].player_id) # <<>>
        /\ (Request.position # NoFilter
               => Players[j].position = Request.position)
        /\ (Request.team # NoFilter => Players[j].team = Request.team) } }

\* the sum of the values of the stat key k in rows
RECURSIVE KeyTotal(_, _)
KeyTotal(rows, k) ==
    IF rows = <<>> THEN 0
    ELSE LET r == rows[Len(rows)]
         IN  FAdd(KeyTotal(SubSeq(rows, 1, Len(rows) - 1), k),
                  IF r.stat_key = k THEN r.stat_value ELSE 0)

\* the fantasy points of a player in the period under the profile asked
\* for: the specified score of the player's stats, each key summed over
\* the period
FantasyPoints(p) ==
    LET rows == RequestedRows(p)
        st == [k \in { rows[i].stat_key : i \in 1..Len(rows) } |->
                  KeyTotal(rows, k)]
    IN  Round2(SpecifiedTotal(st, RulesDict(last.id), Len(RulesDict(last.id))))

\* the players of the list
ListedPlayers == { Listed[i].player_id : i \in 1..Len(Listed) }

\* the list holds min(N, matching) different matching players with their
\* points, none of them below a matching player left out
TopOfMatching ==
    /\ Len(Listed) = Min(Request.limit, Cardinality(Matching))
    /\ Cardinality(ListedPlayers) = Len(Listed)
    /\ ListedPlayers \subseteq Matching
    /\ \A i \in 1..Len(Listed) :
           Listed[i].fantasy_points = FantasyPoints(Listed[i].player_id)
    /\ \A p \in Matching \ ListedPlayers :
           \A i \in 1..Len(Listed) :
               FantasyPoints(p) <= Listed[i].fantasy_points

\* the list is in non-increasing order of fantasy points
NonIncreasing ==
    \A i \in 1..(Len(Listed) - 1) :
        Listed[i].fantasy_points >= Listed[i + 1].fantasy_points

\* C29: a leaderboard request for a stored profile with limit N and offset
\* 0 is answered with the N matching players of the highest fantasy points
\* (all, if fewer match), in non-increasing order of fantasy points.
C29_LeaderboardTopN ==
    ( /\ last.op = "leaderboard"
      /\ Request.offset = 0
      /\ ProfileExists(last.id) ) =>
        IF last.status = 200 THEN TopOfMatching /\ NonIncreasing ELSE FALSE

====
